---- MODULE Spec2Model ----
(***************************************************************************)
(* Model of the versioned mutation engine of claude-ace:                   *)
(*   ace_core/hooks/delta_manager.py  (PlaybookDelta, PlaybookHistory,     *)
(*                                     apply_delta, cleanup_archived_points)*)
(*   ace_core/hooks/common.py         (generate_keypoint_name,             *)
(*                                     update_playbook_data, save_playbook)*)
(*                                                                         *)
(* Strings the code inspects character by character (key point texts and   *)
(* the numeric suffix of key point names) are sequences of one-character   *)
(* strings; strings the code only builds and stores (reasons, sources) are *)
(* TLA+ strings.  Timestamps are integer clock readings; 0 stands for an   *)
(* absent timestamp and "<absent>" for an absent string field.             *)
(***************************************************************************)
EXTENDS Integers, Sequences, FiniteSets, TLC

VARIABLES
    playbook,           \* the store: [key_points, last_updated, last_delta_source]
    ledger,             \* playbook_history.jsonl: sequence of history entries
    now,                \* the clock read by datetime.now(), one tick per run
    delta,              \* the PlaybookDelta object of the last cycle / application
    extraction_result,  \* the extraction result handed to the last cycle
    ace_config,         \* the configuration returned by load_config
    playbook_file,      \* playbook.json as a reader finds it on disk
    pc,                 \* where the running hook stands
    observed,           \* what the last load_playbook of a reader returned
    durable,            \* playbook.json and the ledger as the running hook found them
    vector_store,       \* the PlaybookVectorStore object: [backend, backend_type, config]
    collection,         \* the points of the Qdrant and of the ChromaDB collection
    indexed,            \* the last index_playbook: the playbook it got, the backend it used
    last_session,       \* last_session.txt
    returned,           \* the last call of the retrieval API and what it returned
    embed_client        \* the OllamaEmbeddingClient and its running embed_batch

coreVars == <<playbook, ledger, now, delta, extraction_result, ace_config>>
ioVars == <<playbook_file, pc, observed, durable>>
retrievalVars == <<vector_store, collection, indexed, last_session, returned, embed_client>>

vars == <<coreVars, ioVars, retrievalVars>>

----------------------------------------------------------------------------
(* Bounds of the model *)

MaxCycles == 3
MaxEvals == 1
MaxApply == 2
MaxOps == 2
MaxTexts == 3

----------------------------------------------------------------------------
(* Generic helpers *)

NoTime == 0
Absent == "<absent>"

Range(s) == { s[i] : i \in DOMAIN s }

SeqsUpTo(S, n) == UNION { [1..k -> S] : k \in 0..n }

RECURSIVE SumSeq(_)
SumSeq(s) == IF s = <<>> THEN 0 ELSE s[1] + SumSeq(Tail(s))

Max(a, b) == IF a >= b THEN a ELSE b

----------------------------------------------------------------------------
(* Texts: str.lower() and str.strip() *)

Chars == {"a", "A", " "}
Whitespace == {" "}

LowerChar(c) == IF c = "A" THEN "a" ELSE c

lower(text) == [i \in DOMAIN text |-> LowerChar(text[i])]

RECURSIVE lstrip(_)
lstrip(text) ==
    IF text # <<>> /\ text[1] \in Whitespace THEN lstrip(Tail(text)) ELSE text

RECURSIVE rstrip(_)
rstrip(text) ==
    IF text # <<>> /\ text[Len(text)] \in Whitespace
    THEN rstrip(SubSeq(text, 1, Len(text) - 1))
    ELSE text

strip(text) == rstrip(lstrip(text))

\* text.lower().strip()
text_lower(text) == strip(lower(text))

----------------------------------------------------------------------------
(* Names: "kpt_NNN" is [prefix |-> "kpt", suffix |-> <<"0","0","1">>]; the  *)
(* suffix is name.split("_")[1].                                           *)

DigitChars == <<"0", "1", "2", "3", "4", "5", "6", "7", "8", "9">>
Digits == Range(DigitChars)

DigitVal(c) == (CHOOSE i \in DOMAIN DigitChars : DigitChars[i] = c) - 1

\* int(s): ValueError unless s is a non-empty string of decimal digits
IsInt(s) == s # <<>> /\ \A i \in DOMAIN s : s[i] \in Digits

RECURSIVE ParseInt(_)
ParseInt(s) ==
    IF s = <<>> THEN 0
    ELSE 10 * ParseInt(SubSeq(s, 1, Len(s) - 1)) + DigitVal(s[Len(s)])

RECURSIVE ToDigits(_)
ToDigits(n) ==
    IF n < 10 THEN <<DigitChars[n + 1]>>
    ELSE ToDigits(n \div 10) \o <<DigitChars[(n % 10) + 1]>>

RECURSIVE ZeroPad(_, _)
ZeroPad(s, width) == IF Len(s) >= width THEN s ELSE ZeroPad(<<"0">> \o s, width)

\* f"kpt_{n:03d}"
Format03d(n) == ZeroPad(ToDigits(n), 3)

KptName(n) == [prefix |-> "kpt", suffix |-> Format03d(n)]

\* the numbers of the names that start with "kpt_" and parse
KptNumbers(existing_names) ==
    { ParseInt(nm.suffix) : nm \in { m \in existing_names : m.prefix = "kpt" /\ IsInt(m.suffix) } }

RECURSIVE SetMax(_)
SetMax(S) ==
    IF S = {} THEN 0
    ELSE LET x == CHOOSE y \in S : TRUE IN Max(x, SetMax(S \ {x}))

\* faulty variant: the names are counted instead of their numbers compared
generate_keypoint_name_CountsNames(existing_names) == KptName(Cardinality(existing_names) + 1)

generate_keypoint_name(existing_names) == KptName(SetMax(KptNumbers(existing_names)) + 1)

----------------------------------------------------------------------------
(* Key points and delta operations *)

\* the dict staged by update_playbook_data (common.py 242-246)
NewKp(name, text) ==
    [name |-> name, text |-> text, score |-> 0,
     status |-> Absent, created_at |-> NoTime, reason |-> Absent,
     archived_at |-> NoTime, archive_reason |-> Absent,
     evaluations |-> <<>>]

\* PlaybookDelta.add_keypoint
add_keypoint(keypoint, reason) ==
    [type |-> "add", target |-> keypoint.name, data |-> <<keypoint>>,
     reason |-> reason, delta |-> 0, rating |-> Absent, justification |-> Absent]

\* PlaybookDelta.remove_keypoint
remove_keypoint(name, reason) ==
    [type |-> "archive", target |-> name, data |-> <<>>,
     reason |-> reason, delta |-> 0, rating |-> Absent, justification |-> Absent]

\* PlaybookDelta.update_score
update_score(name, d, rating, justification) ==
    [type |-> "score_update", target |-> name, data |-> <<>>,
     reason |-> Absent, delta |-> d, rating |-> rating, justification |-> justification]

\* PlaybookDelta.__init__
PlaybookDelta(source, timestamp) ==
    [timestamp |-> timestamp, source |-> source, operations |-> <<>>]

EmptyPlaybook == [key_points |-> <<>>, last_updated |-> NoTime, last_delta_source |-> Absent]

Names(kps) == { kps[i].name : i \in DOMAIN kps }

\* name_to_kp[target]: the dict comprehension keeps the last key point of a name
IndexOf(kps, target) ==
    CHOOSE i \in DOMAIN kps : kps[i].name = target /\ \A j \in DOMAIN kps : kps[j].name = target => j <= i

----------------------------------------------------------------------------
(* apply_delta (delta_manager.py 206-266) *)

\* "add" branch, target not in name_to_kp: lines 230-234
ApplyAdd(kps, op, timestamp) ==
    Append(kps, [op.data[1] EXCEPT !.created_at = timestamp,
                                   !.status = "active",
                                   !.reason = op.reason])

\* "archive" branch, target in name_to_kp: lines 239-241
ApplyArchive(kp, op, timestamp) ==
    [kp EXCEPT !.status = "archived",
               !.archived_at = timestamp,
               !.archive_reason = op.reason]

\* faulty variant: the evaluation list is rebuilt instead of appended to
ApplyScoreUpdate_ResetsHistory(kp, op, timestamp) ==
    LET old_score == kp.score
        new_score == old_score + op.delta
    IN [kp EXCEPT !.score = new_score,
                  !.evaluations = <<[timestamp |-> timestamp,
                                     rating |-> op.rating,
                                     delta |-> op.delta,
                                     justification |-> op.justification,
                                     old_score |-> old_score,
                                     new_score |-> new_score]>>]

\* "score_update" branch, target in name_to_kp: lines 246-260
ApplyScoreUpdate(kp, op, timestamp) ==
    LET old_score == kp.score
        new_score == old_score + op.delta
    IN [kp EXCEPT !.score = new_score,
                  !.evaluations = Append(@, [timestamp |-> timestamp,
                                             rating |-> op.rating,
                                             delta |-> op.delta,
                                             justification |-> op.justification,
                                             old_score |-> old_score,
                                             new_score |-> new_score])]

\* faulty variant: "add" without the test of line 228
ApplyOperation_NoExistenceCheck(kps, op, timestamp) ==
    IF op.type = "add" THEN ApplyAdd(kps, op, timestamp)
    ELSE IF op.type = "archive" THEN
        IF op.target \in Names(kps)
        THEN [kps EXCEPT ![IndexOf(kps, op.target)] = ApplyArchive(@, op, timestamp)]
        ELSE kps
    ELSE IF op.type = "score_update" THEN
        IF op.target \in Names(kps)
        THEN [kps EXCEPT ![IndexOf(kps, op.target)] = ApplyScoreUpdate(@, op, timestamp)]
        ELSE kps
    ELSE kps

\* faulty variant: a "score_update" of a missing name makes an entry for it
ApplyOperation_ScoreUpdateCreates(kps, op, timestamp) ==
    IF op.type = "add" THEN
        IF op.target \notin Names(kps) THEN ApplyAdd(kps, op, timestamp) ELSE kps
    ELSE IF op.type = "archive" THEN
        IF op.target \in Names(kps)
        THEN [kps EXCEPT ![IndexOf(kps, op.target)] = ApplyArchive(@, op, timestamp)]
        ELSE kps
    ELSE IF op.type = "score_update" THEN
        IF op.target \in Names(kps)
        THEN [kps EXCEPT ![IndexOf(kps, op.target)] = ApplyScoreUpdate(@, op, timestamp)]
        ELSE Append(kps, ApplyScoreUpdate(NewKp(op.target, <<>>), op, timestamp))
    ELSE kps

\* faulty variant: "add" of an existing name re-activates the entry
ApplyOperation_AddReactivates(kps, op, timestamp) ==
    IF op.type = "add" THEN
        IF op.target \notin Names(kps) THEN ApplyAdd(kps, op, timestamp)
        ELSE [kps EXCEPT ![IndexOf(kps, op.target)].status = "active"]
    ELSE IF op.type = "archive" THEN
        IF op.target \in Names(kps)
        THEN [kps EXCEPT ![IndexOf(kps, op.target)] = ApplyArchive(@, op, timestamp)]
        ELSE kps
    ELSE IF op.type = "score_update" THEN
        IF op.target \in Names(kps)
        THEN [kps EXCEPT ![IndexOf(kps, op.target)] = ApplyScoreUpdate(@, op, timestamp)]
        ELSE kps
    ELSE kps

\* one iteration of the loop of lines 221-260
ApplyOperation(kps, op, timestamp) ==
    IF op.type = "add" THEN
        IF op.target \notin Names(kps) THEN ApplyAdd(kps, op, timestamp) ELSE kps
    ELSE IF op.type = "archive" THEN
        IF op.target \in Names(kps)
        THEN [kps EXCEPT ![IndexOf(kps, op.target)] = ApplyArchive(@, op, timestamp)]
        ELSE kps
    ELSE IF op.type = "score_update" THEN
        IF op.target \in Names(kps)
        THEN [kps EXCEPT ![IndexOf(kps, op.target)] = ApplyScoreUpdate(@, op, timestamp)]
        ELSE kps
    ELSE kps

\* the key points after the first n operations
RECURSIVE ApplyOperations(_, _, _, _)
ApplyOperations(kps, operations, timestamp, n) ==
    IF n = 0 THEN kps
    ELSE ApplyOperation(ApplyOperations(kps, operations, timestamp, n - 1),
                        operations[n], timestamp)

\* the playbook returned by apply_delta
apply_delta(pb, d) ==
    [key_points |-> ApplyOperations(pb.key_points, d.operations, d.timestamp, Len(d.operations)),
     last_updated |-> d.timestamp,
     last_delta_source |-> d.source]

\* operation i inserted its data dict into the store (line 233)
Inserted(pb, d, i) ==
    /\ d.operations[i].type = "add"
    /\ d.operations[i].target \notin
           Names(ApplyOperations(pb.key_points, d.operations, d.timestamp, i - 1))

\* The delta object after apply_delta: the dict of an inserted add IS the
\* store's key point (lines 227, 233-234), so every later change to that key
\* point shows in operation["data"].
DeltaAfterApply(pb, d) ==
    LET kps == apply_delta(pb, d).key_points
    IN [d EXCEPT !.operations =
            [i \in DOMAIN d.operations |->
                IF Inserted(pb, d, i)
                THEN [d.operations[i] EXCEPT !.data = <<kps[IndexOf(kps, d.operations[i].target)]>>]
                ELSE d.operations[i]]]

----------------------------------------------------------------------------
(* load_config defaults (common.py 47-64) *)

auto_cleanup_threshold == -5
helpful_delta == 1
neutral_delta == -1
harmful_delta == -3

max_keypoints_to_inject == 15

\* the vector_search default of vector_store.py 99
min_strategies_for_index == 10

default_config ==
    [reflection |-> [auto_cleanup_threshold |-> auto_cleanup_threshold,
                     max_keypoints_to_inject |-> max_keypoints_to_inject],
     scoring |-> [helpful_delta |-> helpful_delta,
                  neutral_delta |-> neutral_delta,
                  harmful_delta |-> harmful_delta],
     hooks |-> [inject_only_positive_scores |-> TRUE],
     vector_search |-> [min_strategies_for_index |-> min_strategies_for_index]]

\* ace_config.json: absent, unreadable as JSON, or a JSON object
ConfigFile(state, content) == [state |-> state, content |-> content]

\* load_config, lines 66-76: {**default_config, **user_config}
load_config(file) ==
    IF file.state # "json" THEN default_config
    ELSE [s \in DOMAIN default_config \cup DOMAIN file.content |->
            IF s \in DOMAIN file.content THEN file.content[s] ELSE default_config[s]]

\* the keys update_playbook_data reads: lines 262-266 and 279
KeysRead ==
    [scoring |-> {"helpful_delta", "harmful_delta", "neutral_delta"},
     reflection |-> {"auto_cleanup_threshold"}]

\* a subscript of update_playbook_data raises KeyError
RaisesKeyError(config) ==
    \E s \in DOMAIN KeysRead : ~(KeysRead[s] \subseteq DOMAIN config[s])

----------------------------------------------------------------------------
(* update_playbook_data (common.py 186-297) *)

\* existing_names, line 212
ExistingNames(pb) == Names(pb.key_points)

\* faulty variant: the status filter of line 216 is missing
ExistingTexts_IncludesArchived(pb) ==
    { text_lower(pb.key_points[i].text) : i \in DOMAIN pb.key_points }

\* the keys of existing_texts, lines 213-217 (the mapped names are never read)
ExistingTexts(pb) ==
    { text_lower(pb.key_points[i].text) :
        i \in { j \in DOMAIN pb.key_points : pb.key_points[j].status # "archived" } }

\* faulty variant: line 258 (existing_names.add) is missing
StageItem_ForgetsName(st, text, source) ==
    IF text = <<>> THEN st
    ELSE IF text_lower(text) \in st.texts THEN st
    ELSE LET name == generate_keypoint_name(st.names)
         IN [names |-> st.names,
             texts |-> st.texts \cup {text_lower(text)},
             operations |-> Append(st.operations,
                                   add_keypoint(NewKp(name, text), "Extracted from " \o source))]

\* one iteration of the loop of lines 220-259 on st = [names, texts, operations]
StageItem(st, text, source) ==
    IF text = <<>> THEN st
    ELSE IF text_lower(text) \in st.texts THEN st
    ELSE LET name == generate_keypoint_name(st.names)
         IN [names |-> st.names \cup {name},
             texts |-> st.texts \cup {text_lower(text)},
             operations |-> Append(st.operations,
                                   add_keypoint(NewKp(name, text), "Extracted from " \o source))]

RECURSIVE StageItems(_, _, _, _)
StageItems(pb, new_key_points, source, n) ==
    IF n = 0
    THEN [names |-> ExistingNames(pb), texts |-> ExistingTexts(pb), operations |-> <<>>]
    ELSE StageItem(StageItems(pb, new_key_points, source, n - 1), new_key_points[n], source)

\* rating_delta.get(rating, 0), lines 262-266 and 274
RatingDelta(scoring, rating) ==
    IF rating = "helpful" THEN scoring.helpful_delta
    ELSE IF rating = "harmful" THEN scoring.harmful_delta
    ELSE IF rating = "neutral" THEN scoring.neutral_delta
    ELSE 0

\* the loop of lines 268-275
RECURSIVE StageEvaluations(_, _, _, _)
StageEvaluations(names, evaluations, scoring, n) ==
    IF n = 0 THEN <<>>
    ELSE LET rest == StageEvaluations(names, evaluations, scoring, n - 1)
             ev == evaluations[n]
         IN IF ev.name \in names
            THEN Append(rest, update_score(ev.name, RatingDelta(scoring, ev.rating),
                                           ev.rating, ev.justification))
            ELSE rest

\* faulty variant: the comparison of line 283 is strict
BelowThreshold_Strict(kp, threshold) == kp.status # "archived" /\ kp.score < threshold

\* the condition of line 283
BelowThreshold(kp, threshold) == kp.status # "archived" /\ kp.score <= threshold

ArchiveReason(score, threshold) ==
    "Score " \o ToString(score) \o " below threshold " \o ToString(threshold)

\* the loop of lines 280-288: it reads the playbook of before the delta
RECURSIVE StageArchival(_, _, _)
StageArchival(kps, threshold, n) ==
    IF n = 0 THEN <<>>
    ELSE LET rest == StageArchival(kps, threshold, n - 1)
         IN IF BelowThreshold(kps[n], threshold)
            THEN Append(rest, remove_keypoint(kps[n].name,
                                              ArchiveReason(kps[n].score, threshold)))
            ELSE rest

\* faulty variant: the archival loop runs before the additions are staged
BuildDelta_ArchivalFirst(pb, er, source, timestamp, config) ==
    LET staged == StageItems(pb, er.new_key_points, source, Len(er.new_key_points))
    IN [PlaybookDelta(source, timestamp) EXCEPT !.operations =
            StageArchival(pb.key_points, config.reflection.auto_cleanup_threshold,
                          Len(pb.key_points))
            \o staged.operations
            \o StageEvaluations(staged.names, er.evaluations, config.scoring, Len(er.evaluations))]

\* the delta built by lines 210-288
BuildDelta(pb, er, source, timestamp, config) ==
    LET staged == StageItems(pb, er.new_key_points, source, Len(er.new_key_points))
    IN [PlaybookDelta(source, timestamp) EXCEPT !.operations =
            staged.operations
            \o StageEvaluations(staged.names, er.evaluations, config.scoring, Len(er.evaluations))
            \o StageArchival(pb.key_points, config.reflection.auto_cleanup_threshold,
                             Len(pb.key_points))]

----------------------------------------------------------------------------
(* PlaybookHistory (delta_manager.py 87-203) *)

ActivePoints(pb) ==
    { i \in DOMAIN pb.key_points : pb.key_points[i].status # "archived" }

RECURSIVE SumScores(_, _)
SumScores(kps, I) ==
    IF I = {} THEN 0
    ELSE LET i == CHOOSE j \in I : TRUE IN kps[i].score + SumScores(kps, I \ {i})

\* faulty variant: archived key points are averaged too
calculate_avg_score_CountsArchived(pb) ==
    IF pb.key_points = <<>> THEN [num |-> 0, den |-> 1]
    ELSE [num |-> SumScores(pb.key_points, DOMAIN pb.key_points),
          den |-> Len(pb.key_points)]

\* _calculate_avg_score: the quotient total/count is kept as the fraction
\* [num, den]; 0.0 is [num |-> 0, den |-> 1]
calculate_avg_score(pb) ==
    IF pb.key_points = <<>> THEN [num |-> 0, den |-> 1]
    ELSE IF ActivePoints(pb) = {} THEN [num |-> 0, den |-> 1]
    ELSE [num |-> SumScores(pb.key_points, ActivePoints(pb)),
          den |-> Cardinality(ActivePoints(pb))]

\* line 116
playbook_size(pb) == Len(pb.key_points)

\* the history entry of lines 114-118, with PlaybookDelta.to_dict
history_entry(d, pb) ==
    [timestamp |-> d.timestamp,
     source |-> d.source,
     operations |-> d.operations,
     operation_count |-> Len(d.operations),
     playbook_size |-> playbook_size(pb),
     avg_score |-> calculate_avg_score(pb)]

\* faulty variant: the file is opened with 'w' and holds the new line alone
record_delta_Truncates(history, d, pb) == <<history_entry(d, pb)>>

\* record_delta appends one line
record_delta(history, d, pb) == Append(history, history_entry(d, pb))

\* s[start:] of a Python list: a negative start counts from the end, and
\* both are clamped to the list
PySliceFrom(s, start) ==
    LET lo == IF start < 0
              THEN (IF Len(s) + start < 0 THEN 0 ELSE Len(s) + start)
              ELSE (IF start > Len(s) THEN Len(s) ELSE start)
    IN SubSeq(s, lo + 1, Len(s))

\* get_recent_deltas (lines 124-144): no file gives [], else deltas[-limit:]
get_recent_deltas(history, limit) ==
    IF history = <<>> THEN <<>> ELSE PySliceFrom(history, 0 - limit)

OperationsOfType(entry, type) ==
    Cardinality({ i \in DOMAIN entry.operations : entry.operations[i].type = type })

RECURSIVE TotalOfType(_, _, _)
TotalOfType(history, type, n) ==
    IF n = 0 THEN 0
    ELSE TotalOfType(history, type, n - 1) + OperationsOfType(history[n], type)

\* get_stats (lines 146-189); without a file there is no updates_by_source
get_stats(history) ==
    LET total(type) == TotalOfType(history, type, Len(history))
        sources == { history[i].source : i \in DOMAIN history }
    IN [total_updates |-> Len(history),
        total_additions |-> total("add"),
        total_archival |-> total("archive"),
        total_score_updates |-> total("score_update"),
        updates_by_source |->
            [s \in sources |-> Cardinality({ i \in DOMAIN history : history[i].source = s })]]

\* save_playbook (common.py 169-183): line 176 on the dict
save_playbook(pb, timestamp) == [pb EXCEPT !.last_updated = timestamp]

\* playbook.json: "absent" while it does not exist; after open(path, 'w')
\* (line 182) it holds what json.dump (line 183) has written so far of the
\* playbook: "nothing", "part" or "all" of its text
NoFile == [written |-> "absent", content |-> EmptyPlaybook]

WrittenFile(pb, written) == [written |-> written, content |-> pb]

\* the migration of load_playbook (lines 126-154) on a key point this program
\* wrote: it has name, text and score; a missing status becomes "active"
MigrateItem(kp) == IF kp.status = Absent THEN [kp EXCEPT !.status = "active"] ELSE kp

\* load_playbook (common.py 101-166): no file gives a new playbook; text that
\* json.load cannot parse (an empty or unfinished file) raises and the
\* handler of lines 160-166 returns a new playbook as well
load_playbook(file) ==
    IF file.written = "absent" THEN EmptyPlaybook
    ELSE IF file.written = "all"
    THEN [file.content EXCEPT !.key_points =
             [i \in DOMAIN file.content.key_points |-> MigrateItem(file.content.key_points[i])]]
    ELSE EmptyPlaybook

----------------------------------------------------------------------------
(* cleanup_archived_points (delta_manager.py 269-329) *)

ArchivedIdx(kps) == { i \in DOMAIN kps : kps[i].status = "archived" }

\* archived_points.sort(key=archived_at, reverse=True): a stable sort, so
\* i comes before j iff it was archived later, or at the same time and
\* stands earlier in the list
SortsBefore(kps, i, j) ==
    \/ kps[i].archived_at > kps[j].archived_at
    \/ kps[i].archived_at = kps[j].archived_at /\ i < j

\* keep_archived, line 301: the names of archived_points[:keep_recent]
KeepArchived(kps, keep_recent) ==
    { kps[i].name : i \in { j \in ArchivedIdx(kps) :
        Cardinality({ k \in ArchivedIdx(kps) : SortsBefore(kps, k, j) }) < keep_recent } }

\* faulty variant: the most recently archived entries are not protected
KeptByCleanup_IgnoresKeepRecent(kps, i, time, days_threshold, keep_recent) ==
    \/ kps[i].status # "archived"
    \/ kps[i].archived_at # NoTime /\ kps[i].archived_at > time - days_threshold

\* the filter of lines 305-326
KeptByCleanup(kps, i, time, days_threshold, keep_recent) ==
    \/ kps[i].status # "archived"
    \/ kps[i].name \in KeepArchived(kps, keep_recent)
    \/ kps[i].archived_at # NoTime /\ kps[i].archived_at > time - days_threshold

RECURSIVE FilterKept(_, _, _, _, _)
FilterKept(kps, n, time, days_threshold, keep_recent) ==
    IF n = 0 THEN <<>>
    ELSE LET rest == FilterKept(kps, n - 1, time, days_threshold, keep_recent)
         IN IF KeptByCleanup(kps, n, time, days_threshold, keep_recent)
            THEN Append(rest, kps[n]) ELSE rest

cleanup_archived_points(pb, time, days_threshold, keep_recent) ==
    [pb EXCEPT !.key_points =
        FilterKept(pb.key_points, Len(pb.key_points), time, days_threshold, keep_recent)]

----------------------------------------------------------------------------
(* OllamaEmbeddingClient (storage/ollama_embedding.py).  A task is one      *)
(* _embed_single coroutine: the requests it has made, the sleeps it has     *)
(* taken and where it stands ("pending" until its batch is started).        *)

\* the default of __init__, line 52
max_retries == 3

\* faulty variant: the wait grows by one second per attempt
Backoff_Linear(attempt) == attempt + 1

\* asyncio.sleep(2 ** attempt), line 256
Backoff(attempt) == 2 ^ attempt

\* __init__, lines 63-75
OllamaEmbeddingClient(retries) ==
    [max_retries |-> retries,
     stats |-> [total_requests |-> 0, total_embeddings |-> 0, total_failures |-> 0],
     pc |-> "idle", texts |-> <<>>, batch_size |-> 0, i |-> 0,
     tasks |-> <<>>, results |-> <<>>]

\* range(self.max_retries) of a task that has made no request: with no
\* attempt to make, line 260 raises at once
NewTask(retries) ==
    [state |-> IF retries <= 0 THEN "raised" ELSE "running", attempts |-> 0, sleeps |-> <<>>]

PendingTask == [state |-> "pending", attempts |-> 0, sleeps |-> <<>>]

\* the indexes of texts[i:i + batch_size], lines 178-179
BatchOf(client, i) ==
    { k \in DOMAIN client.texts : i < k /\ k <= i + client.batch_size }

\* tasks = [self._embed_single(text) for text in texts], line 187
StartBatch(client, i) ==
    [client EXCEPT !.i = i,
                   !.tasks = [k \in DOMAIN client.texts |->
                                 IF k \in BatchOf(client, i)
                                 THEN NewTask(client.max_retries) ELSE client.tasks[k]]]

\* one pass of the loop of _embed_single (lines 216-257) for task k: the
\* request succeeds (ok) or raises
EmbedAttempt(client, k, ok) ==
    LET task == client.tasks[k]
        attempt == task.attempts
    IN IF ok
       THEN [client EXCEPT !.tasks[k].state = "done",
                           !.tasks[k].attempts = attempt + 1,
                           !.stats.total_requests = @ + 1,
                           !.stats.total_embeddings = @ + 1]
       ELSE IF attempt < client.max_retries - 1
       THEN [client EXCEPT !.tasks[k].attempts = attempt + 1,
                           !.tasks[k].sleeps = Append(@, Backoff(attempt))]
       ELSE [client EXCEPT !.tasks[k].state = "raised",
                           !.tasks[k].attempts = attempt + 1]

RECURSIVE ValidResults(_, _, _)
ValidResults(texts, tasks, K) ==
    IF K = {} THEN <<>>
    ELSE LET k == CHOOSE m \in K : \A j \in K : m <= j
         IN (IF tasks[k].state = "done" THEN <<[text |-> texts[k]]>> ELSE <<>>)
            \o ValidResults(texts, tasks, K \ {k})

\* faulty variant: gather without return_exceptions, the first exception
\* leaves _process_batch
process_batch_RaisesOnFailure(client, K) ==
    IF \E k \in K : client.tasks[k].state = "raised"
    THEN [raised |-> TRUE, valid_results |-> <<>>, failures |-> 0]
    ELSE [raised |-> FALSE,
          valid_results |-> ValidResults(client.texts, client.tasks, K),
          failures |-> 0]

\* _process_batch once gather has returned (lines 188-199)
process_batch(client, K) ==
    [raised |-> FALSE,
     valid_results |-> ValidResults(client.texts, client.tasks, K),
     failures |-> Cardinality({ k \in K : client.tasks[k].state = "raised" })]

----------------------------------------------------------------------------
(* PlaybookVectorStore (storage/vector_store.py) and QdrantVectorStore      *)
(* (storage/qdrant_store.py).  The backend None is "None"; an Optional[int] *)
(* is <<>> for None and <<n>> for n.  The similarity of a hit is decided by *)
(* the embedding model: the model leaves the ranking open and carries no    *)
(* similarity value.                                                        *)

\* str(uuid.uuid5(uuid.NAMESPACE_DNS, name)): a string that is not the name
uuid5(name) == [uuid5 |-> name]

EmptyCollection == [qdrant |-> {}, chroma |-> {}]

\* _init_qdrant succeeds: lines 135-149
init_qdrant_ok(svc) == svc.qdrant = "ok" /\ svc.ollama \in {"ok", "warning"}

\* _init_chroma succeeds: lines 167-185
init_chroma_ok(svc) == svc.chroma = "ok"

\* faulty variant: the fallback is tried first
auto_select_backend_FallbackFirst(svc) ==
    IF init_chroma_ok(svc) THEN [backend |-> "chroma", backend_type |-> "chroma"]
    ELSE IF init_qdrant_ok(svc) THEN [backend |-> "qdrant", backend_type |-> "qdrant"]
    ELSE [backend |-> "None", backend_type |-> "none"]

\* _auto_select_backend, lines 102-127
auto_select_backend(svc) ==
    IF init_qdrant_ok(svc) THEN [backend |-> "qdrant", backend_type |-> "qdrant"]
    ELSE IF init_chroma_ok(svc) THEN [backend |-> "chroma", backend_type |-> "chroma"]
    ELSE [backend |-> "None", backend_type |-> "none"]

\* __init__, lines 47-72: the object made, or raised when _init_qdrant or
\* _init_chroma raises out of the constructor
PlaybookVectorStore(backend, config, svc) ==
    LET made(b, type) ==
            [raised |-> FALSE,
             object |-> [backend |-> b, backend_type |-> type, config |-> config]]
        failed == [raised |-> TRUE,
                   object |-> [backend |-> "None", backend_type |-> backend, config |-> config]]
    IN IF backend = "auto"
       THEN made(auto_select_backend(svc).backend, auto_select_backend(svc).backend_type)
       ELSE IF backend = "qdrant" THEN
            IF init_qdrant_ok(svc) THEN made("qdrant", backend) ELSE failed
       ELSE IF backend = "chroma" THEN
            IF init_chroma_ok(svc) THEN made("chroma", backend) ELSE failed
       ELSE made("None", backend)

\* faulty variant: the status filter of lines 211-214 is missing
ActiveStrategies_AllEntries(pb) == pb.key_points

\* lines 211-214
ActiveStrategies(pb) == SelectSeq(pb.key_points, LAMBDA kp : kp.status = "active")

\* the PointStruct of qdrant_store.py 198-217 (entries carry no source,
\* source_level or atomicity_score: those payload fields are constants)
QdrantPoint(strategy) ==
    [id |-> uuid5(strategy.name),
     payload |-> [name |-> strategy.name, text |-> strategy.text,
                  score |-> strategy.score, status |-> strategy.status]]

\* client.upsert: a point replaces the point of the same id
Upsert(points, new) == { p \in points : \A q \in new : q.id # p.id } \cup new

\* _index_qdrant, lines 234-258: embed_batch returns a result per text only
\* while Ollama serves the model; any exception gives 0
index_qdrant(strategies, coll, svc) ==
    IF svc.ollama # "ok" \/ svc.qdrant # "ok" THEN [raised |-> FALSE, count |-> 0, collection |-> coll]
    ELSE [raised |-> FALSE, count |-> Len(strategies),
          collection |-> [coll EXCEPT !.qdrant =
                             Upsert(@, { QdrantPoint(strategies[i]) : i \in DOMAIN strategies })]]

\* _index_chroma, lines 260-294: the collection is deleted and created anew
index_chroma(strategies, coll) ==
    [raised |-> FALSE, count |-> Len(strategies),
     collection |-> [coll EXCEPT !.chroma =
                        { [id |-> strategies[i].name,
                           document |-> strategies[i].text,
                           metadata |-> [score |-> strategies[i].score,
                                         status |-> strategies[i].status]] :
                          i \in DOMAIN strategies }]]

\* faulty variant: the test of lines 208-209 is missing and None['type'] raises
index_playbook_NoBackendTest(vs, pb, coll, svc) ==
    LET strategies == ActiveStrategies(pb)
    IN IF strategies = <<>> THEN [raised |-> FALSE, count |-> 0, collection |-> coll]
       ELSE IF Len(strategies) < vs.config.min_strategies_for_index
            THEN [raised |-> FALSE, count |-> 0, collection |-> coll]
       ELSE IF vs.backend = "qdrant" THEN index_qdrant(strategies, coll, svc)
       ELSE IF vs.backend = "chroma" THEN index_chroma(strategies, coll)
       ELSE [raised |-> TRUE, count |-> 0, collection |-> coll]

\* index_playbook, lines 198-233
index_playbook(vs, pb, coll, svc) ==
    LET strategies == ActiveStrategies(pb)
    IN IF vs.backend = "None" THEN [raised |-> FALSE, count |-> 0, collection |-> coll]
       ELSE IF strategies = <<>> THEN [raised |-> FALSE, count |-> 0, collection |-> coll]
       ELSE IF Len(strategies) < vs.config.min_strategies_for_index
            THEN [raised |-> FALSE, count |-> 0, collection |-> coll]
       ELSE IF vs.backend = "qdrant" THEN index_qdrant(strategies, coll, svc)
       ELSE IF vs.backend = "chroma" THEN index_chroma(strategies, coll)
       ELSE [raised |-> FALSE, count |-> 0, collection |-> coll]

\* the rankings of n of the hits S
Rankings(S, n) == { q \in [1..n -> S] : \A i, j \in 1..n : i # j => q[i] # q[j] }

Min(a, b) == IF a <= b THEN a ELSE b

\* QdrantVectorStore.search (qdrant_store.py 233-313) with status_filter
\* "active", formatted by _search_qdrant (vector_store.py 339-346): 'name' is
\* r.id, the id of the point
search_qdrant(coll, svc, limit, min_score) ==
    IF svc.ollama # "ok" \/ svc.qdrant # "ok" THEN {<<>>}
    ELSE LET hits == { p \in coll.qdrant :
                         /\ p.payload.status = "active"
                         /\ min_score # <<>> => p.payload.score >= min_score[1] }
         IN { [i \in DOMAIN q |-> [name |-> q[i].id, text |-> q[i].payload.text,
                                    score |-> q[i].payload.score,
                                    status |-> q[i].payload.status]] :
                q \in Rankings(hits, Min(limit, Cardinality(hits))) }

\* _search_chroma, lines 356-387
search_chroma(coll, limit, min_score) ==
    LET hits == { c \in coll.chroma : min_score # <<>> => c.metadata.score >= min_score[1] }
    IN { [i \in DOMAIN q |-> [name |-> q[i].id, text |-> q[i].document,
                               score |-> q[i].metadata.score,
                               status |-> q[i].metadata.status]] :
           q \in Rankings(hits, Min(limit, Cardinality(hits))) }

\* search, lines 296-321: the lists it may return
search(vs, coll, svc, limit, min_score) ==
    IF vs.backend = "None" THEN {<<>>}
    ELSE IF vs.backend = "qdrant" THEN search_qdrant(coll, svc, limit, min_score)
    ELSE IF vs.backend = "chroma" THEN search_chroma(coll, limit, min_score)
    ELSE {<<>>}

\* is_indexed, lines 390-407
is_indexed(vs, coll, svc) ==
    IF vs.backend = "None" THEN FALSE
    ELSE IF vs.backend = "qdrant" THEN svc.qdrant = "ok" /\ coll.qdrant # {}
    ELSE IF vs.backend = "chroma" THEN coll.chroma # {}
    ELSE FALSE

\* sorted(key_points, key=score, reverse=True): stable, so among equal scores
\* the earlier entry stays first
RECURSIVE SortedByScore(_)
SortedByScore(kps) ==
    IF kps = <<>> THEN <<>>
    ELSE LET i == CHOOSE k \in DOMAIN kps :
                    /\ \A j \in DOMAIN kps : kps[j].score <= kps[k].score
                    /\ \A j \in 1..(k - 1) : kps[j].score < kps[k].score
         IN <<kps[i]>> \o SortedByScore(SubSeq(kps, 1, i - 1) \o SubSeq(kps, i + 1, Len(kps)))

\* the lines "- [name] text" handed to the template
ContextLines(items) == [i \in DOMAIN items |-> [name |-> items[i].name, text |-> items[i].text]]

\* format_playbook_simple (user_prompt_inject.py 112-157); "" is <<>>
format_playbook_simple(pb, config) ==
    LET active == SelectSeq(pb.key_points, LAMBDA kp : kp.status # "archived")
        shown == IF config.hooks.inject_only_positive_scores
                 THEN SelectSeq(active, LAMBDA kp : kp.score >= 0)
                 ELSE active
        sorted_kps == SortedByScore(shown)
    IN IF pb.key_points = <<>> THEN <<>>
       ELSE IF shown = <<>> THEN <<>>
       ELSE ContextLines(SubSeq(sorted_kps, 1,
                                Min(config.reflection.max_keypoints_to_inject, Len(sorted_kps))))

\* format_playbook_with_vector_search (user_prompt_inject.py 59-109): the
\* store it makes, the collection it leaves and the contexts it may return;
\* no call of lines 75-87 raises, so the handler of 103-108 is never entered
VectorSearchOutcomes(pb, config, vcfg, coll, svc) ==
    LET vs == PlaybookVectorStore("auto", vcfg, svc).object
        ix == IF is_indexed(vs, coll, svc)
              THEN [raised |-> FALSE, count |-> 0, collection |-> coll]
              ELSE index_playbook(vs, pb, coll, svc)
    IN { [vector_store |-> vs, collection |-> ix.collection,
          reindexed |-> ~is_indexed(vs, coll, svc),
          context |-> ContextLines(results)] :
            results \in search(vs, ix.collection, svc,
                               config.reflection.max_keypoints_to_inject, <<0>>) }

\* what the health checks of a call find: check_qdrant_available,
\* check_ollama_available ('warning': the service runs without the model) and
\* the import and set-up of chromadb
ServiceStates ==
    [qdrant : {"ok", "error"}, ollama : {"ok", "warning", "error"}, chroma : {"ok", "error"}]

AllDown == [qdrant |-> "error", ollama |-> "error", chroma |-> "error"]

\* before any PlaybookVectorStore is made
NoRetrieval ==
    /\ vector_store = PlaybookVectorStore("none", ace_config.vector_search, AllDown).object
    /\ collection = EmptyCollection
    /\ indexed = [playbook |-> EmptyPlaybook, backend |-> "None"]
    /\ last_session = Absent
    /\ returned = [op |-> "none", args |-> <<>>, raised |-> FALSE, value |-> <<>>]
    /\ embed_client = OllamaEmbeddingClient(max_retries)

----------------------------------------------------------------------------
(* The hooks: one update cycle per session_end / precompact run *)

Sources == {"session_end"}
LifecycleBatches ==
    {<<>>, << <<>> >>, << <<"a">> >>, << <<"b">> >>, << <<"a">>, <<"b">> >>}
LifecycleEvalItems ==
    { [name |-> KptName(1), rating |-> "harmful", justification |-> ""],
      [name |-> KptName(2), rating |-> "helpful", justification |-> ""] }
DaysThresholds == {0, 1}
KeepRecents == {0, 1}

\* ace_config.json may set its own threshold (load_config, common.py 66-73)
Thresholds == {auto_cleanup_threshold, harmful_delta, 0}
Configs ==
    { [default_config EXCEPT !.reflection.auto_cleanup_threshold = t] : t \in Thresholds }

ExtractionResults(batches, items, maxEvals) ==
    { [evaluations |-> e, new_key_points |-> b] :
        b \in batches, e \in SeqsUpTo(items, maxEvals) }

Init ==
    /\ playbook = EmptyPlaybook
    /\ ledger = <<>>
    /\ now = 1
    /\ delta = PlaybookDelta("init", 1)
    /\ extraction_result = [evaluations |-> <<>>, new_key_points |-> <<>>]
    /\ ace_config \in Configs
    /\ playbook_file = NoFile
    /\ pc = "idle"
    /\ observed = EmptyPlaybook
    /\ durable = [file |-> NoFile, ledger |-> <<>>]
    /\ NoRetrieval

\* main of session_end.py / precompact.py: load_playbook, update_playbook_data
\* (build the delta, apply it, record it), save_playbook
UpdateCycle(source, er) ==
    LET d == BuildDelta(playbook, er, source, now, ace_config)
        applied == apply_delta(playbook, d)
    IN /\ Len(ledger) < MaxCycles
       /\ extraction_result' = er
       /\ delta' = DeltaAfterApply(playbook, d)
       /\ ledger' = record_delta(ledger, delta', applied)
       /\ playbook' = save_playbook(applied, now)
       /\ playbook_file' = WrittenFile(playbook', "all")
       /\ now' = now + 1
       /\ UNCHANGED <<ace_config, pc, observed, durable, retrievalVars>>

Cycle ==
    \E source \in Sources :
        \E er \in ExtractionResults(LifecycleBatches, LifecycleEvalItems, MaxEvals) :
            UpdateCycle(source, er)

\* the maintenance prune
Cleanup ==
    /\ \E days_threshold \in DaysThresholds, keep_recent \in KeepRecents :
         playbook' = cleanup_archived_points(playbook, now, days_threshold, keep_recent)
    /\ playbook' # playbook
    /\ playbook_file' = WrittenFile(playbook', "all")
    /\ UNCHANGED <<ledger, now, delta, extraction_result, ace_config, pc, observed, durable>>
    /\ UNCHANGED retrievalVars

Next == Cycle \/ Cleanup

Spec == Init /\ [][Next]_vars

\* update cycles alone, fed with batches of texts that differ in case and
\* surrounding blanks
DedupMaxBatch == 2
DedupTexts == {<<"a">>, <<"A", " ">>, <<" ">>}
DedupEvaluations ==
    {<<>>, <<[name |-> KptName(1), rating |-> "harmful", justification |-> ""]>>}

CycleDedup ==
    \E source \in Sources :
        \E b \in SeqsUpTo(DedupTexts, DedupMaxBatch), e \in DedupEvaluations :
            UpdateCycle(source, [evaluations |-> e, new_key_points |-> b])

SpecCycles == Init /\ [][CycleDedup]_vars

----------------------------------------------------------------------------
(* Applying arbitrary deltas to a store: the API of apply_delta *)

ApplyNames == {KptName(1), KptName(2)}

ApplyOpSet ==
    { add_keypoint(NewKp(n, <<"a">>), "") : n \in ApplyNames }
    \cup { remove_keypoint(n, "r") : n \in ApplyNames }
    \cup { update_score(KptName(1), helpful_delta, "helpful", ""),
           update_score(KptName(2), harmful_delta, "harmful", "") }

InitApply ==
    /\ playbook = EmptyPlaybook
    /\ ledger = <<>>
    /\ now = 1
    /\ delta = PlaybookDelta("init", 1)
    /\ extraction_result = [evaluations |-> <<>>, new_key_points |-> <<>>]
    /\ ace_config = default_config
    /\ playbook_file = NoFile
    /\ pc = "idle"
    /\ observed = EmptyPlaybook
    /\ durable = [file |-> NoFile, ledger |-> <<>>]
    /\ NoRetrieval

\* a caller builds a delta at the current time and applies it
ApplyDelta ==
    /\ now <= MaxApply
    /\ \E ops \in SeqsUpTo(ApplyOpSet, MaxOps) :
         LET d == [PlaybookDelta("api", now) EXCEPT !.operations = ops]
         IN /\ playbook' = apply_delta(playbook, d)
            /\ delta' = DeltaAfterApply(playbook, d)
    /\ now' = now + 1
    /\ UNCHANGED <<ledger, extraction_result, ace_config, ioVars, retrievalVars>>

\* the same delta object is applied once more (a replayed delta)
ReapplyDelta ==
    /\ now <= MaxApply
    /\ delta.operations # <<>>
    /\ playbook' = apply_delta(playbook, delta)
    /\ delta' = DeltaAfterApply(playbook, delta)
    /\ now' = now + 1
    /\ UNCHANGED <<ledger, extraction_result, ace_config, ioVars, retrievalVars>>

NextApply == ApplyDelta \/ ReapplyDelta

SpecApply == InitApply /\ [][NextApply]_vars

----------------------------------------------------------------------------
(* The hook step by step, with a failing disk and a concurrent reader *)

MaxHookRuns == 2

HookEvaluations ==
    {<<>>, <<[name |-> KptName(1), rating |-> "harmful", justification |-> ""]>>}
HookBatches == {<< <<"a">> >>}

\* session_end.py 126 / precompact.py 103: playbook = load_playbook()
HookLoad ==
    /\ pc = "idle"
    /\ now <= MaxHookRuns
    /\ playbook' = load_playbook(playbook_file)
    /\ durable' = [file |-> playbook_file, ledger |-> ledger]
    /\ pc' = "loaded"
    /\ UNCHANGED <<ledger, now, delta, extraction_result, ace_config, playbook_file, observed, retrievalVars>>

\* session_end.py 139: update_playbook_data builds the delta, applies it to
\* the dict and appends the record to the ledger file
HookUpdate ==
    /\ pc = "loaded"
    /\ \E source \in Sources, b \in HookBatches, e \in HookEvaluations :
         LET er == [evaluations |-> e, new_key_points |-> b]
             d == BuildDelta(playbook, er, source, now, ace_config)
         IN /\ extraction_result' = er
            /\ delta' = DeltaAfterApply(playbook, d)
            /\ playbook' = apply_delta(playbook, d)
            /\ ledger' = record_delta(ledger, delta', playbook')
    /\ pc' = "updated"
    /\ UNCHANGED <<now, ace_config, playbook_file, observed, durable, retrievalVars>>

\* save_playbook 176-182: the timestamp is set, open(path, 'w') empties the file
SaveOpen ==
    /\ pc = "updated"
    /\ playbook' = save_playbook(playbook, now)
    /\ playbook_file' = WrittenFile(playbook', "nothing")
    /\ pc' = "writing"
    /\ UNCHANGED <<ledger, now, delta, extraction_result, ace_config, observed, durable, retrievalVars>>

\* mkdir or open raises OSError: main's handler (session_end.py 151-155)
SaveOpenFails ==
    /\ pc = "updated"
    /\ playbook' = save_playbook(playbook, now)
    /\ pc' = "failed"
    /\ UNCHANGED <<ledger, now, delta, extraction_result, ace_config, playbook_file, observed, durable, retrievalVars>>

\* json.dump writes the text piece by piece (line 183)
SaveWrite ==
    /\ pc = "writing"
    /\ \/ /\ playbook_file.written = "nothing"
          /\ playbook_file' = WrittenFile(playbook, "part")
          /\ UNCHANGED <<pc, now>>
       \/ /\ playbook_file.written = "part"
          /\ playbook_file' = WrittenFile(playbook, "all")
          /\ pc' = "idle"
          /\ now' = now + 1
    /\ UNCHANGED <<playbook, ledger, delta, extraction_result, ace_config, observed, durable, retrievalVars>>

\* a write raises OSError (disk full): the file keeps what was written
SaveWriteFails ==
    /\ pc = "writing"
    /\ pc' = "failed"
    /\ UNCHANGED <<coreVars, playbook_file, observed, durable, retrievalVars>>

\* sys.exit(1), session_end.py 155
HookExit ==
    /\ pc = "failed"
    /\ pc' = "idle"
    /\ now' = now + 1
    /\ UNCHANGED <<playbook, ledger, delta, extraction_result, ace_config, playbook_file, observed, durable, retrievalVars>>

\* another process (user_prompt_inject.py 177) loads the playbook
ReadStore ==
    /\ observed' = load_playbook(playbook_file)
    /\ observed' # observed
    /\ UNCHANGED <<coreVars, playbook_file, pc, durable, retrievalVars>>

NextIO ==
    \/ HookLoad \/ HookUpdate
    \/ SaveOpen \/ SaveOpenFails \/ SaveWrite \/ SaveWriteFails
    \/ HookExit \/ ReadStore

SpecIO == Init /\ [][NextIO]_vars

----------------------------------------------------------------------------
(* Retrieval: the store changes by update cycles while vector stores are    *)
(* made, indexed and searched, and new sessions get their context           *)

MaxRetrievalCycles == 2

RetrievalBatches == {<< <<"a">>, <<"b">> >>}
\* ace_config.json with its own threshold and index minimum
RetrievalConfigs ==
    { [default_config EXCEPT !.reflection.auto_cleanup_threshold = harmful_delta,
                             !.vector_search.min_strategies_for_index = n] : n \in {1, 2} }
Backends == {"auto", "qdrant", "chroma", "none"}
Limits == {1, 10}
MinScores == {<<>>, <<0>>}
SessionIds == {"s1"}
UserMessages == {"", "q"}

InitRetrieval ==
    /\ playbook = EmptyPlaybook
    /\ ledger = <<>>
    /\ now = 1
    /\ delta = PlaybookDelta("init", 1)
    /\ extraction_result = [evaluations |-> <<>>, new_key_points |-> <<>>]
    /\ ace_config \in RetrievalConfigs
    /\ playbook_file = NoFile
    /\ pc = "idle"
    /\ observed = EmptyPlaybook
    /\ durable = [file |-> NoFile, ledger |-> <<>>]
    /\ NoRetrieval

SessionEnd ==
    /\ Len(ledger) < MaxRetrievalCycles
    /\ \E source \in Sources, b \in RetrievalBatches, e \in HookEvaluations :
         UpdateCycle(source, [evaluations |-> e, new_key_points |-> b])

\* vector_store = PlaybookVectorStore(backend, config), the services being svc
NewVectorStore ==
    /\ \E backend \in Backends, svc \in ServiceStates :
         LET made == PlaybookVectorStore(backend, ace_config.vector_search, svc)
         IN /\ vector_store' = IF made.raised THEN vector_store ELSE made.object
            /\ returned' = [op |-> "select", args |-> <<backend, svc>>,
                            raised |-> made.raised, value |-> <<>>]
    /\ UNCHANGED <<coreVars, ioVars, embed_client, collection, indexed, last_session>>

\* vector_store.index_playbook(load_playbook())
IndexPlaybook ==
    /\ \E svc \in ServiceStates :
         LET r == index_playbook(vector_store, load_playbook(playbook_file), collection, svc)
         IN /\ collection' = r.collection
            /\ returned' = [op |-> "index", args |-> <<>>, raised |-> r.raised,
                            value |-> <<r.count>>]
    /\ indexed' = [playbook |-> load_playbook(playbook_file), backend |-> vector_store.backend]
    /\ UNCHANGED <<coreVars, ioVars, embed_client, vector_store, last_session>>

\* vector_store.search(query, limit, min_score)
Search ==
    /\ \E limit \in Limits, min_score \in MinScores, svc \in ServiceStates :
         \E results \in search(vector_store, collection, svc, limit, min_score) :
            returned' = [op |-> "search", args |-> <<limit, min_score>>,
                         raised |-> FALSE, value |-> results]
    /\ UNCHANGED <<coreVars, ioVars, embed_client, vector_store, collection, indexed, last_session>>

\* main of user_prompt_inject.py (160-218); available is VECTOR_SEARCH_AVAILABLE
Inject ==
    \E session_id \in SessionIds, user_message \in UserMessages,
       available \in BOOLEAN, svc \in ServiceStates :
        LET pb == load_playbook(playbook_file)
        IN IF session_id = last_session
           THEN /\ returned' = [op |-> "inject", args |-> <<"seen">>,
                                raised |-> FALSE, value |-> <<>>]
                /\ UNCHANGED <<coreVars, ioVars, embed_client, vector_store, collection,
                               indexed, last_session>>
           ELSE IF available /\ user_message # ""
           THEN \E out \in VectorSearchOutcomes(pb, ace_config, ace_config.vector_search,
                                                collection, svc) :
                  /\ vector_store' = out.vector_store
                  /\ collection' = out.collection
                  /\ indexed' = IF out.reindexed
                                THEN [playbook |-> pb, backend |-> out.vector_store.backend]
                                ELSE indexed
                  /\ returned' = [op |-> "inject", args |-> <<"vector", out.vector_store.backend>>,
                                  raised |-> FALSE, value |-> out.context]
                  /\ last_session' = IF out.context = <<>> THEN last_session ELSE session_id
                  /\ UNCHANGED <<coreVars, ioVars, embed_client>>
           ELSE /\ returned' = [op |-> "inject", args |-> <<"simple">>,
                                raised |-> FALSE,
                                value |-> format_playbook_simple(pb, ace_config)]
                /\ last_session' = IF returned'.value = <<>> THEN last_session ELSE session_id
                /\ UNCHANGED <<coreVars, ioVars, embed_client, vector_store, collection, indexed>>

NextRetrieval ==
    \/ SessionEnd \/ NewVectorStore \/ IndexPlaybook \/ Search \/ Inject

SpecRetrieval == InitRetrieval /\ [][NextRetrieval]_vars

\* the vector store API alone, on the store one session_end run leaves
InitSelect ==
    \E source \in Sources, b \in RetrievalBatches :
        LET er == [evaluations |-> <<>>, new_key_points |-> b]
            d == BuildDelta(EmptyPlaybook, er, source, 1, ace_config)
            applied == apply_delta(EmptyPlaybook, d)
        IN /\ ace_config \in RetrievalConfigs
           /\ extraction_result = er
           /\ delta = DeltaAfterApply(EmptyPlaybook, d)
           /\ ledger = record_delta(<<>>, delta, applied)
           /\ playbook = save_playbook(applied, 1)
           /\ playbook_file = WrittenFile(playbook, "all")
           /\ now = 2
           /\ pc = "idle"
           /\ observed = EmptyPlaybook
           /\ durable = [file |-> NoFile, ledger |-> <<>>]
           /\ NoRetrieval

NextSelect == NewVectorStore \/ IndexPlaybook \/ Search

SpecSelect == InitSelect /\ [][NextSelect]_vars

\* stores are made and the playbook is indexed between update cycles that
\* add, rate and archive entries
NextIndex == SessionEnd \/ NewVectorStore \/ IndexPlaybook

SpecIndex == InitRetrieval /\ [][NextIndex]_vars

----------------------------------------------------------------------------
(* One coordinator over its calls: a PlaybookVectorStore made with backend  *)
(* "auto", then searched and indexed while the services come and go; the    *)
(* health a call met is recorded with the call                              *)

\* vector_store = PlaybookVectorStore(backend="auto", config)
NewAutoStore ==
    /\ \E svc \in ServiceStates :
         LET made == PlaybookVectorStore("auto", ace_config.vector_search, svc)
         IN /\ vector_store' = made.object
            /\ returned' = [op |-> "select", args |-> <<svc>>,
                            raised |-> made.raised, value |-> <<>>]
    /\ UNCHANGED <<coreVars, ioVars, embed_client, collection, indexed, last_session>>

\* vector_store.search(query, limit) on the object that was made
SearchAgain ==
    /\ returned.op # "none"
    /\ \E limit \in Limits, svc \in ServiceStates :
         \E results \in search(vector_store, collection, svc, limit, <<>>) :
            returned' = [op |-> "search", args |-> <<svc, limit>>,
                         raised |-> FALSE, value |-> results]
    /\ UNCHANGED <<coreVars, ioVars, embed_client, vector_store, collection, indexed, last_session>>

\* vector_store.index_playbook(load_playbook()) on the same object
IndexAgain ==
    /\ returned.op # "none"
    /\ \E svc \in ServiceStates :
         LET r == index_playbook(vector_store, load_playbook(playbook_file), collection, svc)
         IN /\ collection' = r.collection
            /\ returned' = [op |-> "index", args |-> <<svc>>, raised |-> r.raised,
                            value |-> <<r.count>>]
    /\ indexed' = [playbook |-> load_playbook(playbook_file), backend |-> vector_store.backend]
    /\ UNCHANGED <<coreVars, ioVars, embed_client, vector_store, last_session>>

NextHealth == NewAutoStore \/ SearchAgain \/ IndexAgain

SpecHealth == InitSelect /\ [][NextHealth]_vars

----------------------------------------------------------------------------
(* The ledger: update cycles from both hooks, and the readers of the ledger *)

LedgerSources == {"session_end", "precompact"}
LedgerBatches == {<<>>, << <<"a">> >>}
ReplayLimits == 0..3

LedgerCycle ==
    \E source \in LedgerSources, b \in LedgerBatches, e \in HookEvaluations :
        UpdateCycle(source, [evaluations |-> e, new_key_points |-> b])

\* history.get_recent_deltas(limit)
GetRecentDeltas ==
    /\ \E limit \in ReplayLimits :
         returned' = [op |-> "replay", args |-> <<limit>>, raised |-> FALSE,
                      value |-> get_recent_deltas(ledger, limit)]
    /\ UNCHANGED <<coreVars, ioVars, embed_client, vector_store, collection, indexed, last_session>>

\* history.get_stats()
GetStats ==
    /\ returned' = [op |-> "stats", args |-> <<>>, raised |-> FALSE,
                    value |-> <<get_stats(ledger)>>]
    /\ UNCHANGED <<coreVars, ioVars, embed_client, vector_store, collection, indexed, last_session>>

NextLedger == LedgerCycle \/ GetRecentDeltas \/ GetStats

SpecLedger == Init /\ [][NextLedger]_vars

----------------------------------------------------------------------------
(* The maintenance prune called with recorded arguments, between update     *)
(* cycles that archive entries at different times                           *)

PruneDays == {0, 1, 2}
PruneBatches == {<<>>, << <<"a">>, <<"b">> >>, << <<"c">> >>}
PruneEvaluations ==
    {<<>>,
     <<[name |-> KptName(1), rating |-> "harmful", justification |-> ""]>>,
     <<[name |-> KptName(1), rating |-> "harmful", justification |-> ""],
       [name |-> KptName(2), rating |-> "harmful", justification |-> ""]>>}

\* cleanup_archived_points(playbook, days_threshold, keep_recent), whether
\* it removes anything or not
Prune ==
    /\ \E days_threshold \in PruneDays, keep_recent \in KeepRecents :
         /\ playbook' = cleanup_archived_points(playbook, now, days_threshold, keep_recent)
         /\ returned' = [op |-> "cleanup", args |-> <<days_threshold, keep_recent>>,
                         raised |-> FALSE, value |-> <<>>]
    /\ playbook_file' = WrittenFile(playbook', "all")
    /\ UNCHANGED <<ledger, now, delta, extraction_result, ace_config, pc, observed, durable>>
    /\ UNCHANGED <<vector_store, collection, indexed, last_session, embed_client>>

PruneCycle ==
    \E source \in Sources, b \in PruneBatches, e \in PruneEvaluations :
        UpdateCycle(source, [evaluations |-> e, new_key_points |-> b])

NextPrune == PruneCycle \/ Prune

SpecPrune == Init /\ [][NextPrune]_vars

----------------------------------------------------------------------------
(* One embed_batch call of a new client, its tasks running interleaved *)

RetryChoices == {0, 1, max_retries, max_retries + 1}
BatchSizes == {1, 2}
EmbedTexts == {"a", "b"}

InitEmbed ==
    /\ playbook = EmptyPlaybook
    /\ ledger = <<>>
    /\ now = 1
    /\ delta = PlaybookDelta("init", 1)
    /\ extraction_result = [evaluations |-> <<>>, new_key_points |-> <<>>]
    /\ ace_config = default_config
    /\ playbook_file = NoFile
    /\ pc = "idle"
    /\ observed = EmptyPlaybook
    /\ durable = [file |-> NoFile, ledger |-> <<>>]
    /\ vector_store = PlaybookVectorStore("none", ace_config.vector_search, AllDown).object
    /\ collection = EmptyCollection
    /\ indexed = [playbook |-> EmptyPlaybook, backend |-> "None"]
    /\ last_session = Absent
    /\ returned = [op |-> "none", args |-> <<>>, raised |-> FALSE, value |-> <<>>]
    /\ embed_client \in { OllamaEmbeddingClient(retries) : retries \in RetryChoices }

\* embed_batch(texts, batch_size) is called: lines 171-179
EmbedBatch ==
    /\ embed_client.pc = "idle"
    /\ \E texts \in SeqsUpTo(EmbedTexts, MaxTexts), size \in BatchSizes :
         LET called == [embed_client EXCEPT !.texts = texts, !.batch_size = size,
                                            !.tasks = [k \in DOMAIN texts |-> PendingTask]]
         IN embed_client' = IF texts = <<>>
                            THEN [called EXCEPT !.pc = "returned"]
                            ELSE [StartBatch(called, 0) EXCEPT !.pc = "batch"]
    /\ UNCHANGED <<coreVars, ioVars, vector_store, collection, indexed, last_session, returned>>

\* a running task gets the answer to its request
EmbedRequest ==
    /\ embed_client.pc = "batch"
    /\ \E k \in DOMAIN embed_client.tasks, ok \in BOOLEAN :
         /\ embed_client.tasks[k].state = "running"
         /\ embed_client' = EmbedAttempt(embed_client, k, ok)
    /\ UNCHANGED <<coreVars, ioVars, vector_store, collection, indexed, last_session, returned>>

\* gather returns: the batch is filtered (lines 188-199), results.extend
\* (line 181), and the loop of embed_batch goes on or returns (line 183)
GatherBatch ==
    LET K == BatchOf(embed_client, embed_client.i)
        r == process_batch(embed_client, K)
        next == embed_client.i + embed_client.batch_size
        extended == [embed_client EXCEPT !.results = @ \o r.valid_results,
                                         !.stats.total_failures = @ + r.failures]
    IN /\ embed_client.pc = "batch"
       /\ \A k \in K : embed_client.tasks[k].state \in {"done", "raised"}
       /\ embed_client' =
            IF r.raised THEN [embed_client EXCEPT !.pc = "raised"]
            ELSE IF next >= Len(embed_client.texts)
            THEN [extended EXCEPT !.pc = "returned"]
            ELSE StartBatch(extended, next)
       /\ UNCHANGED <<coreVars, ioVars, vector_store, collection, indexed, last_session, returned>>

NextEmbed == EmbedBatch \/ EmbedRequest \/ GatherBatch

SpecEmbed == InitEmbed /\ [][NextEmbed]_vars

\* the event loop runs every task that can run, and every request ends, by
\* an answer or by the client's timeout (line 65)
SpecEmbedFair == SpecEmbed /\ WF_vars(NextEmbed)

----------------------------------------------------------------------------
(* Properties of apply_delta, checked under SpecApply *)

OpsOfType(d, type) == { i \in DOMAIN d.operations : d.operations[i].type = type }

OpsOn(d, type, name) == { i \in OpsOfType(d, type) : d.operations[i].target = name }

AddArchiveOnly(d) ==
    /\ d.operations # <<>>
    /\ \A i \in DOMAIN d.operations : d.operations[i].type \in {"add", "archive"}

\* for every name that S lacks and d adds, the last archive of that name in d,
\* if there is one, comes after an add of it
ArchivesFollowAdds(S, d) ==
    \A i \in OpsOfType(d, "archive") :
        LET t == d.operations[i].target
        IN (/\ t \notin Names(S.key_points)
            /\ OpsOn(d, "add", t) # {}
            /\ \A k \in OpsOn(d, "archive", t) : k <= i)
           => \E j \in OpsOn(d, "add", t) : j < i

\* C1 as stated: applying a delta of adds and archives a second time changes
\* nothing, whatever the delta and the store.
C1_TwiceIsOnce ==
    [][AddArchiveOnly(delta') => apply_delta(playbook', delta') = playbook']_vars

\* C1 (amended): a delta of adds and archives in which no name missing from the
\* store is archived only before it is added gives, applied twice, the same
\* store (entries, status, score, archived_at, archive_reason, metadata) as
\* applied once.
C1_TwiceIsOnceWhenArchivesFollowAdds ==
    [][(AddArchiveOnly(delta') /\ ArchivesFollowAdds(playbook, delta'))
        => apply_delta(playbook', delta') = playbook']_vars

C1_Witness ==
    /\ AddArchiveOnly(delta)
    /\ \E i \in DOMAIN playbook.key_points :
         /\ playbook.key_points[i].created_at = delta.timestamp
         /\ playbook.key_points[i].status = "archived"
         /\ playbook.key_points[i].archived_at = delta.timestamp
         /\ OpsOn(delta, "add", playbook.key_points[i].name) # {}
    /\ apply_delta(playbook, delta) = playbook

\* C2: once archived, always archived: no later delta (score update, add of
\* the same name, archive) makes an archived entry active again.
C2_ArchivalMonotonic ==
    [][\A i \in DOMAIN playbook.key_points :
          playbook.key_points[i].status = "archived"
          => \A j \in DOMAIN playbook'.key_points :
                playbook'.key_points[j].name = playbook.key_points[i].name
                => playbook'.key_points[j].status = "archived"]_vars

C2_Witness ==
    \E i \in DOMAIN playbook.key_points :
        LET kp == playbook.key_points[i]
        IN /\ kp.status = "archived"
           /\ \E e \in DOMAIN kp.evaluations : kp.evaluations[e].timestamp > kp.archived_at
           /\ OpsOn(delta, "add", kp.name) # {}
           /\ kp.created_at < delta.timestamp

\* C4: archiving an archived entry is a no-op: archived_at and archive_reason
\* keep the values of the first archival.
C4_RearchiveIsNoOp ==
    [][\A i \in DOMAIN playbook.key_points :
          playbook.key_points[i].status = "archived"
          => /\ i \in DOMAIN playbook'.key_points
             /\ playbook'.key_points[i].archived_at = playbook.key_points[i].archived_at
             /\ playbook'.key_points[i].archive_reason = playbook.key_points[i].archive_reason]_vars

\* the score updates of d that find their target: it is in S or added earlier in d
EffectiveUpdates(S, d, name) ==
    { i \in OpsOn(d, "score_update", name) :
        name \in Names(S.key_points) \/ \E j \in OpsOn(d, "add", name) : j < i }

RECURSIVE SumDeltas(_, _)
SumDeltas(d, I) ==
    IF I = {} THEN 0
    ELSE LET i == CHOOSE j \in I : TRUE IN d.operations[i].delta + SumDeltas(d, I \ {i})

EvaluationDeltas(kp) == [e \in DOMAIN kp.evaluations |-> kp.evaluations[e].delta]

HistoryConsistent(kp) ==
    /\ kp.score = 0 + SumSeq(EvaluationDeltas(kp))
    /\ \A e \in DOMAIN kp.evaluations :
         /\ kp.evaluations[e].new_score = kp.evaluations[e].old_score + kp.evaluations[e].delta
         /\ e > 1 => kp.evaluations[e].old_score = kp.evaluations[e - 1].new_score

\* C5: each applied delta lengthens an entry's evaluation history by the number
\* of its score updates that found the entry and moves the score by the sum of
\* their deltas; the score is the sum of the recorded deltas, every record has
\* new_score = old_score + delta, and the records chain.
C5_HistoryCountsUpdates ==
    [][\A k \in DOMAIN playbook'.key_points :
          LET kp == playbook'.key_points[k]
              was == kp.name \in Names(playbook.key_points)
              old == playbook.key_points[IndexOf(playbook.key_points, kp.name)]
              upd == EffectiveUpdates(playbook, delta', kp.name)
          IN /\ Len(kp.evaluations) = (IF was THEN Len(old.evaluations) ELSE 0) + Cardinality(upd)
             /\ kp.score = (IF was THEN old.score ELSE 0) + SumDeltas(delta', upd)
             /\ HistoryConsistent(kp)]_vars

C5_Witness ==
    \E i \in DOMAIN playbook.key_points :
        LET kp == playbook.key_points[i]
        IN /\ Len(kp.evaluations) >= 2
           /\ kp.evaluations[1].timestamp < kp.evaluations[Len(kp.evaluations)].timestamp
           /\ kp.score # 0
           /\ kp.status = "archived"

----------------------------------------------------------------------------
(* Properties of the update cycle, checked under Spec *)

Threshold == ace_config.reflection.auto_cleanup_threshold

Last(s) == s[Len(s)]

\* C3: an entry that is active when a cycle starts and whose score the cycle's
\* updates bring to the threshold or below is archived when the cycle ends.
C3_ArchivedInSameCycle ==
    [][ledger' # ledger =>
        \A i \in DOMAIN playbook.key_points :
            (/\ playbook.key_points[i].status # "archived"
             /\ playbook'.key_points[i].score # playbook.key_points[i].score
             /\ playbook'.key_points[i].score <= Threshold)
            => playbook'.key_points[i].status = "archived"]_vars

\* the adds of the ledger, as <<record, operation>> positions
LedgerAdds ==
    { p \in UNION { { <<r, i>> : i \in DOMAIN ledger[r].operations } : r \in DOMAIN ledger } :
        ledger[p[1]].operations[p[2]].type = "add" }

AddedName(p) == ledger[p[1]].operations[p[2]].target

Earlier(p, q) == p[1] < q[1] \/ (p[1] = q[1] /\ p[2] < q[2])

\* C7: every generated name has a number greater than every number generated
\* before, so no name is ever given to two entries, prune or no prune.
C7_NamesNeverReused ==
    \A p, q \in LedgerAdds :
        Earlier(p, q) => ParseInt(AddedName(q).suffix) > ParseInt(AddedName(p).suffix)

ActiveCount(pb) ==
    Cardinality({ i \in DOMAIN pb.key_points : pb.key_points[i].status = "active" })

\* C8: the size written in a ledger record is the number of active entries of
\* the store the cycle produced.
C8_SizeCountsActive ==
    [][ledger' # ledger => Last(ledger').playbook_size = ActiveCount(playbook')]_vars

RECURSIVE ScoreOfActive(_, _)
ScoreOfActive(kps, n) ==
    IF n = 0 THEN 0
    ELSE ScoreOfActive(kps, n - 1) + (IF kps[n].status = "active" THEN kps[n].score ELSE 0)

\* avg is the fraction total/count
IsQuotient(avg, total, count) == avg.num * count = total * avg.den /\ avg.den > 0

\* C9: the average written in a ledger record is the sum of the scores of the
\* non-archived entries over their number, and 0.0 when there is none.
C9_AverageOverActive ==
    [][ledger' # ledger =>
        IF ActiveCount(playbook') = 0
        THEN IsQuotient(Last(ledger').avg_score, 0, 1)
        ELSE IsQuotient(Last(ledger').avg_score,
                        ScoreOfActive(playbook'.key_points, Len(playbook'.key_points)),
                        ActiveCount(playbook'))]_vars

C9_Witness ==
    /\ ledger # <<>>
    /\ playbook.last_updated = Last(ledger).timestamp
    /\ Last(ledger).playbook_size = Len(playbook.key_points)
    /\ \E i, j \in DOMAIN playbook.key_points :
         /\ playbook.key_points[i].status = "archived"
         /\ playbook.key_points[i].score < 0
         /\ playbook.key_points[j].status = "active"
         /\ playbook.key_points[j].score > 0
         /\ IsQuotient(Last(ledger).avg_score, playbook.key_points[j].score, 1)

\* C11: a cycle stages an archive for an entry that is not archived when the
\* cycle starts exactly when the entry's score at that moment is at or below
\* the threshold: a score equal to the threshold is archived, one point above
\* is not, whatever the cycle's own score updates do.
C11_RetentionBoundary ==
    [][ledger' # ledger =>
        \A i \in DOMAIN playbook.key_points :
            playbook.key_points[i].status # "archived"
            => (OpsOn(delta', "archive", playbook.key_points[i].name) # {}
                <=> playbook.key_points[i].score <= Threshold)]_vars

\* one cycle met an entry at the threshold and one a point above it
C11_Witness ==
    /\ ledger # <<>>
    /\ delta = [k \in {"timestamp", "source", "operations"} |-> Last(ledger)[k]]
    /\ \E i, j \in DOMAIN playbook.key_points :
         LET at == playbook.key_points[i]
             above == playbook.key_points[j]
         IN /\ at.status = "archived"
            /\ at.archived_at = delta.timestamp
            /\ at.archive_reason = ArchiveReason(Threshold, Threshold)
            /\ at.score = Threshold
            /\ above.status = "active"
            /\ above.created_at < delta.timestamp
            /\ above.score = Threshold + 1
            /\ OpsOn(delta, "score_update", above.name) = {}
            /\ OpsOn(delta, "archive", above.name) = {}

\* C24: in the delta of a cycle every archive comes after every add and every
\* score update, no archive names an entry the delta adds, and the entries
\* the cycle adds are active when it ends, whatever the threshold.
C24_ArchivesStagedLast ==
    [][ledger' # ledger =>
        /\ \A i \in OpsOfType(delta', "archive") :
             /\ \A j \in OpsOfType(delta', "add") \cup OpsOfType(delta', "score_update") : j < i
             /\ OpsOn(delta', "add", delta'.operations[i].target) = {}
        /\ \A j \in OpsOfType(delta', "add") :
             \E k \in DOMAIN playbook'.key_points :
                /\ k > Len(playbook.key_points)
                /\ playbook'.key_points[k].name = delta'.operations[j].target
                /\ playbook'.key_points[k].status = "active"]_vars

\* a cycle added an entry, which is active with a score at the threshold,
\* rated and archived another
C24_Witness ==
    /\ ledger # <<>>
    /\ delta.timestamp = Last(ledger).timestamp
    /\ \E a \in OpsOfType(delta, "add"), u \in OpsOfType(delta, "score_update"),
          r \in OpsOfType(delta, "archive") :
         /\ delta.operations[u].target = delta.operations[r].target
         /\ \E k \in DOMAIN playbook.key_points :
              /\ playbook.key_points[k].name = delta.operations[a].target
              /\ playbook.key_points[k].status = "active"
              /\ playbook.key_points[k].created_at = delta.timestamp
              /\ playbook.key_points[k].score <= Threshold

----------------------------------------------------------------------------
(* Properties of naming and duplicate suppression, checked under SpecCycles *)

\* C6: no two entries of the store have the same name, and the names staged
\* for the new entries of one cycle are pairwise distinct.
C6_NamesUnique ==
    /\ \A i, j \in DOMAIN playbook.key_points :
         i # j => playbook.key_points[i].name # playbook.key_points[j].name
    /\ \A i, j \in OpsOfType(delta, "add") :
         i # j => delta.operations[i].target # delta.operations[j].target

C6_Witness ==
    /\ Cardinality(OpsOfType(delta, "add")) >= 2
    /\ Len(playbook.key_points) >= 3
    /\ \E i \in DOMAIN playbook.key_points : playbook.key_points[i].status = "archived"

ActiveTexts(pb) ==
    { text_lower(pb.key_points[i].text) :
        i \in { j \in DOMAIN pb.key_points : pb.key_points[j].status = "active" } }

AddsOfText(d, t) ==
    { i \in OpsOfType(d, "add") : text_lower(d.operations[i].data[1].text) = t }

\* C10: a cycle stages no add for a candidate whose lower-cased trimmed text is
\* that of an active entry, and exactly one add for each other text among its
\* candidates, archived entries notwithstanding; no two active entries share a
\* lower-cased trimmed text.
C10_DuplicatesSuppressed ==
    [][ledger' # ledger =>
        /\ \A c \in DOMAIN extraction_result'.new_key_points :
             LET text == extraction_result'.new_key_points[c]
             IN text # <<>> =>
                Cardinality(AddsOfText(delta', text_lower(text)))
                    = (IF text_lower(text) \in ActiveTexts(playbook) THEN 0 ELSE 1)
        /\ \A i, j \in DOMAIN playbook'.key_points :
             (/\ i # j
              /\ playbook'.key_points[i].status = "active"
              /\ playbook'.key_points[j].status = "active")
             => text_lower(playbook'.key_points[i].text) # text_lower(playbook'.key_points[j].text)]_vars

C10_Witness ==
    /\ Len(extraction_result.new_key_points) = 2
    /\ text_lower(extraction_result.new_key_points[1]) = text_lower(extraction_result.new_key_points[2])
    /\ Cardinality(OpsOfType(delta, "add")) = 1
    /\ \E i, j \in DOMAIN playbook.key_points :
         /\ playbook.key_points[i].status = "archived"
         /\ playbook.key_points[j].status = "active"
         /\ playbook.key_points[j].created_at = delta.timestamp
         /\ playbook.key_points[i].text # playbook.key_points[j].text
         /\ text_lower(playbook.key_points[i].text) = text_lower(playbook.key_points[j].text)

----------------------------------------------------------------------------
(* Replay of the ledger, checked under SpecCycles *)

\* the delta a ledger record holds (PlaybookDelta.to_dict read back)
DeltaOfRecord(rec) ==
    [timestamp |-> rec.timestamp, source |-> rec.source, operations |-> rec.operations]

\* the store obtained by applying the deltas of the first n records, in order,
\* to an empty store
RECURSIVE Replay(_, _)
Replay(history, n) ==
    IF n = 0 THEN EmptyPlaybook
    ELSE apply_delta(Replay(history, n - 1), DeltaOfRecord(history[n]))

\* what the claim compares of an entry
Essence(kp) ==
    [name |-> kp.name, text |-> kp.text, score |-> kp.score, status |-> kp.status,
     evaluations |-> kp.evaluations]

EssenceOf(pb) == [i \in DOMAIN pb.key_points |-> Essence(pb.key_points[i])]

\* C12: replaying the deltas of the ledger on an empty store gives the names,
\* texts, scores, statuses and evaluation histories of the current store.
C12_ReplayReproducesStore ==
    EssenceOf(Replay(ledger, Len(ledger))) = EssenceOf(playbook)

----------------------------------------------------------------------------
(* Durability and readers, checked under SpecIO *)

InProgress == pc \in {"loaded", "updated", "writing", "failed"}

\* C13: when the snapshot write of a cycle fails, playbook.json holds the
\* complete content it had when the cycle started and the ledger is the one of
\* that moment; between cycles the last ledger record is that of the cycle
\* that wrote the complete playbook.json.
C13_FailedSaveKeepsDurableState ==
    /\ pc = "failed" =>
         /\ playbook_file = durable.file
         /\ playbook_file.written \in {"absent", "all"}
         /\ ledger = durable.ledger
    /\ (pc = "idle" /\ ledger # <<>>) =>
         /\ playbook_file.written = "all"
         /\ playbook_file.content.last_updated = Last(ledger).timestamp

\* the complete stores of a running cycle: the one it found and the one it saves
StoreBefore ==
    IF durable.file.written \in {"absent", "all"} THEN {load_playbook(durable.file)} ELSE {}

StoreAfter ==
    IF pc \in {"updated", "writing"} THEN {save_playbook(playbook, now)} ELSE {}

\* C14: what a reader loads while a cycle runs is the complete store of before
\* the cycle or the complete store of after it.
C14_ReaderSeesCompleteStore ==
    [][(InProgress /\ pc' = pc /\ observed' # observed)
        => observed' \in StoreBefore \cup StoreAfter]_vars

----------------------------------------------------------------------------
(* Properties of the vector store, checked under SpecRetrieval and SpecSelect *)

\* the store entries a search result stands for: those of its name, or of the
\* name its point id was made from
EntriesOf(r, pb) ==
    { k \in DOMAIN pb.key_points :
        r.name \in {pb.key_points[k].name, uuid5(pb.key_points[k].name)} }

\* C15: a search that follows index_playbook on the current store, with the
\* same backend, returns no entry that the store holds as archived.
C15_ArchivedNotRetrieved ==
    (/\ returned.op = "search"
     /\ indexed.playbook = playbook
     /\ indexed.backend = vector_store.backend)
    => \A i \in DOMAIN returned.value :
          \A k \in EntriesOf(returned.value[i], playbook) :
              playbook.key_points[k].status # "archived"

\* C16: every search result has the name and the text of one store entry.
C16_ResultsCarryEntryNames ==
    returned.op = "search"
    => \A i \in DOMAIN returned.value :
          \E k \in DOMAIN playbook.key_points :
              /\ playbook.key_points[k].name = returned.value[i].name
              /\ playbook.key_points[k].text = returned.value[i].text

Production(svc) == svc.qdrant = "ok" /\ svc.ollama # "error"

\* C17: automatic selection ends in Production exactly when the Qdrant health
\* check is ok and Ollama is reachable, else in Fallback exactly when ChromaDB
\* initialises, else in Disabled; the backend object is missing exactly in
\* Disabled.
C17_SelectionOrder ==
    (returned.op = "select" /\ returned.args[1] = "auto")
    => LET svc == returned.args[2]
       IN /\ ~returned.raised
          /\ vector_store.backend_type = "qdrant" <=> Production(svc)
          /\ vector_store.backend_type = "chroma" <=> (~Production(svc) /\ svc.chroma = "ok")
          /\ vector_store.backend_type = "none" <=> (~Production(svc) /\ svc.chroma # "ok")
          /\ vector_store.backend_type \in {"qdrant", "chroma", "none"}
          /\ vector_store.backend = "None" <=> vector_store.backend_type = "none"
          /\ vector_store.backend # "None" => vector_store.backend = vector_store.backend_type

C17_Witness ==
    /\ returned.op = "select"
    /\ returned.args[1] = "auto"
    /\ returned.args[2] = [qdrant |-> "ok", ollama |-> "warning", chroma |-> "ok"]
    /\ vector_store.backend_type = "qdrant"
    /\ collection.chroma # {}

\* C18: automatic selection with both backends unreachable ends in Disabled,
\* and on a Disabled store every search returns the empty list and every
\* index_playbook returns 0, neither raising.
C18_DisabledReturnsNothing ==
    /\ (/\ returned.op = "select"
        /\ returned.args[1] = "auto"
        /\ ~Production(returned.args[2])
        /\ returned.args[2].chroma # "ok")
       => (~returned.raised /\ vector_store.backend = "None"
           /\ vector_store.backend_type = "none")
    /\ vector_store.backend = "None"
       => /\ returned.op = "search" => (~returned.raised /\ returned.value = <<>>)
          /\ returned.op = "index" => (~returned.raised /\ returned.value = <<0>>)

C18_Witness ==
    /\ vector_store.backend = "None"
    /\ vector_store.backend_type = "none"
    /\ returned.op = "index"
    /\ returned.value = <<0>>
    /\ indexed.playbook = playbook
    /\ Len(ActiveStrategies(playbook)) >= vector_store.config.min_strategies_for_index
    /\ collection.qdrant # {}
    /\ collection.chroma # {}

\* the entries the non-semantic ranking may show
Shown(pb) ==
    { k \in DOMAIN pb.key_points :
        pb.key_points[k].status = "active" /\ pb.key_points[k].score >= 0 }

\* lines is the ranking of pb cut at max: entries of Shown, none twice,
\* highest score first, none left out for a lower one
IsRanking(lines, pb, max) ==
    /\ Len(lines) = Min(max, Cardinality(Shown(pb)))
    /\ \E f \in [DOMAIN lines -> Shown(pb)] :
         /\ \A i, j \in DOMAIN lines : i # j => f[i] # f[j]
         /\ \A i \in DOMAIN lines :
              /\ lines[i].name = pb.key_points[f[i]].name
              /\ lines[i].text = pb.key_points[f[i]].text
         /\ \A i, j \in DOMAIN lines :
              i < j => pb.key_points[f[i]].score >= pb.key_points[f[j]].score
         /\ \A i \in DOMAIN lines : \A k \in Shown(pb) :
              (\A j \in DOMAIN lines : f[j] # k)
              => pb.key_points[k].score <= pb.key_points[f[i]].score

\* C19: a new session's prompt handled without a usable vector backend gets
\* the score ranking of the active entries with score >= 0, not an empty
\* context.
C19_FallsBackToRanking ==
    [][(/\ returned' # returned
        /\ returned'.op = "inject"
        /\ returned'.args[1] # "seen"
        /\ returned'.args[1] = "vector" => returned'.args[2] = "None"
        /\ Shown(playbook) # {})
       => /\ returned'.value # <<>>
          /\ IsRanking(returned'.value, playbook,
                       ace_config.reflection.max_keypoints_to_inject)]_vars

----------------------------------------------------------------------------
(* Operations without effect, checked under SpecApply *)

AddedNames(pb, d) ==
    { d.operations[i].target : i \in OpsOfType(d, "add") } \ Names(pb.key_points)

FirstAdd(d, name) == CHOOSE i \in OpsOn(d, "add", name) : \A j \in OpsOn(d, "add", name) : i <= j

\* the archives and score updates of d that find name in the store
Finding(pb, d, type, name) ==
    { i \in OpsOn(d, type, name) : name \in Names(pb.key_points) \/ FirstAdd(d, name) < i }

\* C20: applying a delta keeps every entry in place; an entry changes only by
\* the archives and score updates that name it, an add of its name changing
\* nothing; entries appear only for the adds of new names, one per name, and
\* none for an archive or score update of a missing name; the operations that
\* do find their target are applied all the same.
C20_NoOpsLeaveStore ==
    [][now' = now + 1 =>
        LET S == playbook.key_points
            T == playbook'.key_points
            d == delta'
        IN /\ Len(T) = Len(S) + Cardinality(AddedNames(playbook, d))
           /\ \A i \in DOMAIN S :
                /\ T[i].name = S[i].name
                /\ (OpsOn(d, "archive", S[i].name) \cup OpsOn(d, "score_update", S[i].name) = {})
                   => T[i] = S[i]
           /\ { T[j].name : j \in (Len(S) + 1)..Len(T) } = AddedNames(playbook, d)
           /\ \A j \in DOMAIN T :
                /\ T[j].status = "archived" <=>
                     \/ (j \in DOMAIN S /\ S[j].status = "archived")
                     \/ Finding(playbook, d, "archive", T[j].name) # {}
                /\ Len(T[j].evaluations) =
                     (IF j \in DOMAIN S THEN Len(S[j].evaluations) ELSE 0)
                     + Cardinality(Finding(playbook, d, "score_update", T[j].name))]_vars

C20_Witness ==
    /\ Len(delta.operations) = 2
    /\ delta.operations[1].type \in {"archive", "score_update"}
    /\ delta.operations[1].target \notin Names(playbook.key_points)
    /\ delta.operations[2].type = "archive"
    /\ \E k \in DOMAIN playbook.key_points :
         /\ playbook.key_points[k].name = delta.operations[2].target
         /\ playbook.key_points[k].archived_at = delta.timestamp
         /\ playbook.key_points[k].created_at < delta.timestamp

----------------------------------------------------------------------------
(* Properties of the ledger, checked under SpecLedger *)

\* C21: the ledger only grows at its end: every step leaves the records it
\* holds unchanged and in place, a completed update cycle appends exactly one
\* record (its own), and the readers of the ledger remove and rewrite nothing.
C21_LedgerAppendOnly ==
    [][/\ Len(ledger') \in {Len(ledger), Len(ledger) + 1}
       /\ SubSeq(ledger', 1, Len(ledger)) = ledger
       /\ now' # now => (Len(ledger') = Len(ledger) + 1 /\ Last(ledger').timestamp = now)
       /\ returned' # returned => ledger' = ledger]_vars

\* the statistics were read after the first of two cycles
C21_Witness ==
    /\ Len(ledger) = 2
    /\ ledger[1].timestamp < ledger[2].timestamp
    /\ ledger[1].operations # <<>>
    /\ returned.op = "stats"
    /\ returned.value[1].total_updates = 1

\* C22: replay(N) on a ledger of n records returns its last min(N, n)
\* records in their order, and none for N = 0.
C22_ReplayReturnsLastN ==
    [][(returned' # returned /\ returned'.op = "replay")
        => LET N == returned'.args[1]
               n == Len(ledger)
               k == IF N <= n THEN N ELSE n
           IN returned'.value = SubSeq(ledger, n - k + 1, n)]_vars

----------------------------------------------------------------------------
(* Properties of the embedding client, checked under SpecEmbed and          *)
(* SpecEmbedFair                                                            *)

Dropped(client) == { k \in DOMAIN client.tasks : client.tasks[k].state = "raised" }

\* the texts whose task succeeded, in input order
RECURSIVE Embedded(_, _)
Embedded(client, n) ==
    IF n = 0 THEN <<>>
    ELSE Embedded(client, n - 1)
         \o (IF client.tasks[n].state = "done" THEN <<client.texts[n]>> ELSE <<>>)

\* C23: embed_batch never raises; when it returns, its results are the texts
\* whose embedding succeeded, in input order, the texts that failed after
\* their retries are left out, and the failure count has grown by their
\* number.
C23_BatchDropsFailedItems ==
    /\ embed_client.pc # "raised"
    /\ embed_client.pc = "returned" =>
         /\ \A k \in DOMAIN embed_client.tasks :
                embed_client.tasks[k].state \in {"done", "raised"}
         /\ [j \in DOMAIN embed_client.results |-> embed_client.results[j].text]
                = Embedded(embed_client, Len(embed_client.texts))
         /\ embed_client.stats.total_failures = Cardinality(Dropped(embed_client))

\* the middle text of three failed after three attempts, in a batch with
\* the first
C23_Witness ==
    /\ embed_client.pc = "returned"
    /\ embed_client.texts = <<"a", "b", "a">>
    /\ embed_client.batch_size = 2
    /\ embed_client.max_retries = max_retries
    /\ Dropped(embed_client) = {2}
    /\ embed_client.tasks[2].attempts = max_retries
    /\ Len(embed_client.results) = 2

Doubling(sleeps) ==
    \A j \in DOMAIN sleeps : sleeps[j] = IF j = 1 THEN 1 ELSE 2 * sleeps[j - 1]

\* what C25 says of one task
BoundedRetry(task, retries) ==
    /\ task.attempts <= Max(retries, 0)
    /\ task.state = "done" => task.attempts >= 1
    /\ task.state = "raised" => task.attempts = Max(retries, 0)
    /\ Len(task.sleeps) = IF task.state = "running" \/ task.attempts = 0
                          THEN task.attempts ELSE task.attempts - 1
    /\ Doubling(task.sleeps)

\* C25: a task makes at most max_retries requests and none after its first
\* success, sleeps of 1, 2, 4, ... seconds separate its consecutive requests,
\* it fails only after max_retries failed requests, and a started embed_batch
\* returns.
C25_BoundedRetries ==
    /\ [](\A k \in DOMAIN embed_client.tasks :
            BoundedRetry(embed_client.tasks[k], embed_client.max_retries))
    /\ [][\A k \in DOMAIN embed_client.tasks :
            embed_client.tasks[k].state \in {"done", "raised"}
            => embed_client'.tasks[k] = embed_client.tasks[k]]_vars
    /\ (embed_client.pc = "batch" ~> embed_client.pc = "returned")

\* a task succeeded at its fourth request, after sleeps of 1, 2 and 4 seconds
C25_Witness ==
    /\ embed_client.pc = "returned"
    /\ embed_client.max_retries = max_retries + 1
    /\ \E k \in DOMAIN embed_client.tasks :
         /\ embed_client.tasks[k].state = "done"
         /\ embed_client.tasks[k].attempts = max_retries + 1
         /\ embed_client.tasks[k].sleeps = <<1, 2, 4>>
    /\ \E k \in DOMAIN embed_client.tasks :
         /\ embed_client.tasks[k].state = "raised"
         /\ embed_client.tasks[k].sleeps = <<1, 2, 4>>

----------------------------------------------------------------------------
(* Properties of the maintenance prune, checked under SpecPrune *)

\* S without the entries at the positions of R, in the order of S
RECURSIVE Without(_, _, _)
Without(S, R, n) ==
    IF n = 0 THEN <<>>
    ELSE Without(S, R, n - 1) \o (IF n \in R THEN <<>> ELSE <<S[n]>>)

Removed(S, T) == { i \in DOMAIN S : \A j \in DOMAIN T : T[j].name # S[i].name }

\* the archived entries other than i that were archived no earlier than i
ArchivedNoEarlier(S, i) ==
    { k \in ArchivedIdx(S) \ {i} : S[k].archived_at >= S[i].archived_at }

\* what the prune may do to the entries S, leaving T; OldEnough(entry) is the
\* condition on the age of a removed entry
PruneKeeps(S, T, keep_recent, OldEnough(_)) ==
    /\ T = Without(S, Removed(S, T), Len(S))
    /\ \A i \in Removed(S, T) :
         /\ S[i].status = "archived"
         /\ Cardinality(ArchivedNoEarlier(S, i)) >= keep_recent
         /\ OldEnough(S[i])

----------------------------------------------------------------------------
(* Update cycles under the ace_config.json files a user may write *)

UserConfigs ==
    { ConfigFile("absent", <<>>),
      ConfigFile("invalid", <<>>),
      ConfigFile("json", <<>>),
      ConfigFile("json", [reflection |-> [auto_cleanup_threshold |-> harmful_delta]]),
      ConfigFile("json", [reflection |-> [max_keypoints_to_inject |-> 5]]),
      ConfigFile("json", [scoring |-> [harmful_delta |-> auto_cleanup_threshold]]),
      ConfigFile("json", [scoring |-> [helpful_delta |-> 2, neutral_delta |-> 0,
                                       harmful_delta |-> auto_cleanup_threshold]]) }

InitConfig ==
    /\ playbook = EmptyPlaybook
    /\ ledger = <<>>
    /\ now = 1
    /\ delta = PlaybookDelta("init", 1)
    /\ extraction_result = [evaluations |-> <<>>, new_key_points |-> <<>>]
    /\ ace_config \in { load_config(file) : file \in UserConfigs }
    /\ playbook_file = NoFile
    /\ pc = "idle"
    /\ observed = EmptyPlaybook
    /\ durable = [file |-> NoFile, ledger |-> <<>>]
    /\ vector_store = PlaybookVectorStore("none", default_config.vector_search, AllDown).object
    /\ collection = EmptyCollection
    /\ indexed = [playbook |-> EmptyPlaybook, backend |-> "None"]
    /\ last_session = Absent
    /\ returned = [op |-> "none", args |-> <<>>, raised |-> FALSE, value |-> <<>>]
    /\ embed_client = OllamaEmbeddingClient(max_retries)

\* the hook's cycle when every key it reads is there
ConfigCycle ==
    /\ pc = "idle"
    /\ ~RaisesKeyError(ace_config)
    /\ \E source \in Sources, b \in PruneBatches, e \in PruneEvaluations :
         UpdateCycle(source, [evaluations |-> e, new_key_points |-> b])

\* KeyError in update_playbook_data (common.py 263-265, 279): main's handler
\* (session_end.py 151-155), nothing was applied, recorded or saved
ConfigCycleFails ==
    /\ pc = "idle"
    /\ now <= MaxCycles
    /\ RaisesKeyError(ace_config)
    /\ pc' = "failed"
    /\ UNCHANGED <<coreVars, playbook_file, observed, durable, retrievalVars>>

NextConfig == ConfigCycle \/ ConfigCycleFails \/ HookExit

SpecConfig == InitConfig /\ [][NextConfig]_vars

----------------------------------------------------------------------------
(* generate_keypoint_name applied to sets of existing names: padded and     *)
(* unpadded numbers with gaps, a suffix that is no number, a name of        *)
(* another family, and the last three-digit number                          *)

NameSets ==
    { KptName(1), KptName(3), KptName(7), KptName(8), KptName(999),
      [prefix |-> "kpt", suffix |-> <<"5">>],
      [prefix |-> "kpt", suffix |-> <<"x">>],
      [prefix |-> "note", suffix |-> <<"0", "0", "9">>] }

\* name = generate_keypoint_name(existing_names)
GenerateName ==
    /\ \E existing_names \in SUBSET NameSets :
         returned' = [op |-> "name", args |-> <<existing_names>>, raised |-> FALSE,
                      value |-> <<generate_keypoint_name(existing_names)>>]
    /\ UNCHANGED <<coreVars, ioVars, embed_client, vector_store, collection, indexed, last_session>>

NextNames == GenerateName

SpecNames == Init /\ [][NextNames]_vars

----------------------------------------------------------------------------
(* Properties of generate_keypoint_name, checked under SpecNames *)

\* the numbers carried by the kpt_ names of S
NumbersIn(S) ==
    { n \in 0..1000 : \E m \in S : m.prefix = "kpt" /\ IsInt(m.suffix) /\ ParseInt(m.suffix) = n }

Largest(N) == IF N = {} THEN 0 ELSE CHOOSE n \in N : \A k \in N : k <= n

\* s is the decimal numeral of n, padded with zeros to three digits
IsPadded3(s, n) ==
    /\ IsInt(s)
    /\ ParseInt(s) = n
    /\ Len(s) >= 3
    /\ Len(s) > 3 => s[1] # "0"

\* C30: the generated name is kpt_ followed by the largest number among the
\* existing kpt_ names (0 if there is none) plus one, zero-padded to three
\* digits, whatever the gaps in the set, and it is not one of the existing
\* names.
C30_NextNameFollowsLargest ==
    returned.op = "name" =>
        LET existing_names == returned.args[1]
            name == returned.value[1]
        IN /\ name.prefix = "kpt"
           /\ IsPadded3(name.suffix, Largest(NumbersIn(existing_names)) + 1)
           /\ name \notin existing_names
           /\ KptName(7) \in existing_names /\ Largest(NumbersIn(existing_names)) = 7
                => name = [prefix |-> "kpt", suffix |-> <<"0", "0", "8">>]
           /\ existing_names = {}
                => name = [prefix |-> "kpt", suffix |-> <<"0", "0", "1">>]

\* kpt_008 was generated for a set with gaps whose largest name is kpt_007
C30_Witness ==
    /\ returned.op = "name"
    /\ returned.args[1] = { KptName(1), KptName(3), KptName(7),
                            [prefix |-> "kpt", suffix |-> <<"5">>],
                            [prefix |-> "kpt", suffix |-> <<"x">>],
                            [prefix |-> "note", suffix |-> <<"0", "0", "9">>] }
    /\ returned.value = << [prefix |-> "kpt", suffix |-> <<"0", "0", "8">>] >>

----------------------------------------------------------------------------
(* Properties of the configuration defaults, checked under SpecConfig *)

\* the configuration with the documented default for each missing value
WithDefaults(config) ==
    [s \in DOMAIN default_config |->
        [k \in DOMAIN default_config[s] |->
            IF k \in DOMAIN config[s] THEN config[s][k] ELSE default_config[s][k]]]

\* C28: whatever ace_config.json holds, a section with only some of its keys
\* included, a started update cycle does not abort and its delta is the one
\* built with the documented default for each missing value.
C28_CycleUsesDefaults ==
    [][pc = "idle" =>
        /\ pc' # "failed"
        /\ ledger' # ledger =>
             delta' = DeltaAfterApply(playbook,
                        BuildDelta(playbook, extraction_result', delta'.source, now,
                                   WithDefaults(ace_config)))]_vars

----------------------------------------------------------------------------
(* Properties of index_playbook, checked under SpecIndex *)

ActiveIdx(kps) == { i \in DOMAIN kps : kps[i].status = "active" }

\* the entry kp is what the index holds under its name
InIndex(coll, kp) ==
    \/ \E p \in coll.qdrant :
          p.payload.name = kp.name /\ p.payload.text = kp.text /\ p.payload.score = kp.score
    \/ \E c \in coll.chroma :
          c.id = kp.name /\ c.document = kp.text /\ c.metadata.score = kp.score

\* the names of what a call wrote to the index
Written(before, after) ==
    { p.payload.name : p \in after.qdrant \ before.qdrant }
        \cup { c.id : c \in after.chroma \ before.chroma }

\* C26: index_playbook writes only active entries to the index; with fewer
\* active entries than the configured minimum it leaves the index unchanged
\* and returns 0; otherwise it returns the number of active entries it
\* upserted: all of them, or none when the call failed.
C26_IndexesOnlyActiveEntries ==
    [][(returned'.op = "index" /\ ledger' = ledger) =>
        LET kps == indexed'.playbook.key_points
            active == ActiveIdx(kps)
            count == returned'.value[1]
        IN /\ ~returned'.raised
           /\ Written(collection, collection') \subseteq { kps[i].name : i \in active }
           /\ Cardinality(active) < vector_store.config.min_strategies_for_index
                => collection' = collection /\ count = 0
           /\ \/ count = 0 /\ Written(collection, collection') = {}
              \/ /\ count = Cardinality(active)
                 /\ \A i \in active : InIndex(collection', kps[i])]_vars

\* a store with an archived and an active entry was indexed in Qdrant: one
\* point, that of the active entry
C26_Witness ==
    /\ returned.op = "index"
    /\ returned.value = <<1>>
    /\ indexed.backend = "qdrant"
    /\ indexed.playbook = playbook
    /\ Len(playbook.key_points) = 2
    /\ playbook.key_points[1].status = "archived"
    /\ playbook.key_points[2].status = "active"
    /\ collection.chroma = {}
    /\ { p.payload.name : p \in collection.qdrant } = {playbook.key_points[2].name}

----------------------------------------------------------------------------
(* Properties of one coordinator over its calls, checked under SpecHealth *)

Calls == {"search", "index"}

\* the call that has returned met a backend it could not use: the selected
\* one was unreachable, or none was selected
CallFailed ==
    /\ returned.op \in Calls
    /\ \/ vector_store.backend = "None"
       \/ vector_store.backend = "qdrant" /\ ~init_qdrant_ok(returned.args[1])
       \/ vector_store.backend = "chroma" /\ ~init_chroma_ok(returned.args[1])

\* C27: a call that finds the selected backend unreachable returns an empty
\* result without selecting again, and the next search or index call on the
\* same coordinator probes the services again: it works with the backend the
\* selection gives for the health it finds, Fallback or Disabled when the
\* preferred one is down, a backend again when a service has recovered.
C27_NextCallProbesAgain ==
    [][returned'.op \in Calls =>
        /\ (vector_store.backend = "qdrant" /\ ~init_qdrant_ok(returned'.args[1])
             /\ returned'.op = "search") => returned'.value = <<>>
        /\ (vector_store.backend = "qdrant" /\ ~init_qdrant_ok(returned'.args[1])
             /\ returned'.op = "index") => returned'.value = <<0>>
        /\ CallFailed =>
             vector_store'.backend = auto_select_backend(returned'.args[1]).backend]_vars

====
